---- MODULE Spec2Model ----
(***************************************************************************)
(* Model of the MCAN driver (src/src/Mcan/Mcan.c): the device descriptor,  *)
(* the register file it drives, the configuration sequence of              *)
(* Mcan_setConfig with its two bounded polling loops, and the transmit and *)
(* receive paths working on message RAM.                                   *)
(*                                                                         *)
(* The descriptor `mcan` holds the fields of the C struct Mcan; its field  *)
(* `reg` holds the registers reached through mcan->reg.  A register is a   *)
(* record of its bit fields (or a set of bit names / bit indices), every   *)
(* field already masked to its width as BIT_FIELD_VALUE does.  Addresses   *)
(* are byte addresses, NULL is 0.                                          *)
(*                                                                         *)
(* Mcan_setConfig is a sequence of steps, one per function it calls, and   *)
(* `pc` is the position of the call.  The configuration descriptor is      *)
(* const during the call, so each of its parts is drawn when the step that *)
(* reads it runs and is kept in `cfg`.  The hardware acts between the      *)
(* steps (the Hw... actions).                                              *)
(***************************************************************************)
EXTENDS Integers, Sequences, FiniteSets

VARIABLES mcan, ram, pc, cfg, counter, cccrReads, ret, changed,
          ndebug, scenario, calls, pending, structFifo, contents

vars == <<mcan, ram, pc, cfg, counter, cccrReads, ret, changed,
          ndebug, scenario, calls, pending, structFifo, contents>>

(***************************************************************************)
(* Bounds of the model.                                                    *)
(***************************************************************************)
\* Largest timeoutLimit a caller passes to Mcan_setConfig.
MaxTimeout == 2
\* Number of elements of an enabled Rx FIFO / Tx Event FIFO / filter list.
RegionSize == 2

(***************************************************************************)
(* Program constants.                                                      *)
(***************************************************************************)
NULL == 0
Mcan_ElementSize_8 == 0
Mcan_ElementSize_64 == 7
Mcan_ElementSize_Invalid == 8
Mcan_DataLengthRaw_Invalid == 247
\* assert((bufferSize + queueSize) <= 32u)
MaxTxElements == 32
\* McanRegisters.h: number of header words of a Tx / Rx element, and the
\* byte size decodeTxElementSizeInBytes yields for an invalid selector.
MCAN_TXELEMENT_DATA_WORD == 2
MCAN_RXELEMENT_DATA_WORD == 2
MCAN_TXELEMENT_SIZE_INVALID == 255

Mcan_Modes ==
    {"Normal", "AutomaticRetransmissionDisabled", "Restricted",
     "BusMonitoring", "PowerDown", "InternalLoopBackTest", "Invalid"}

(***************************************************************************)
(* Bits.h                                                                  *)
(***************************************************************************)
\* shiftValueLeft restricted to the field: the value kept in a field of
\* `width` bits.
BIT_FIELD_VALUE(width, value) == value % (2 ^ width)

\* (address & MCAN_xxx_SA_MASK): bits 15..2 of the address.
AddressField(address) == (address % 65536) - (address % 4)

(***************************************************************************)
(* Message RAM.  `ram` maps the byte addresses that hold a non-zero byte   *)
(* to that byte; every other byte is 0.  Words are little-endian.          *)
(***************************************************************************)
EmptyRam == [a \in {} |-> 0]

ReadByte(r, a) == IF a \in DOMAIN r THEN r[a] ELSE 0

ReadBytes(r, a, n) == [i \in 1 .. n |-> ReadByte(r, a + i - 1)]

WriteBytes(r, a, bytes) ==
    LET touched == a .. (a + Len(bytes) - 1)
        byte(x) == IF x \in touched THEN bytes[x - a + 1] ELSE r[x]
    IN [x \in {y \in DOMAIN r \cup touched : byte(y) # 0} |-> byte(x)]

\* memset(address, 0, n)
Memset(r, a, n) == WriteBytes(r, a, [i \in 1 .. n |-> 0])

RECURSIVE BitOr(_, _)
BitOr(a, b) ==
    IF a = 0 THEN b
    ELSE IF b = 0 THEN a
    ELSE (IF a % 2 = 1 \/ b % 2 = 1 THEN 1 ELSE 0)
         + 2 * BitOr(a \div 2, b \div 2)

\* word |= value, byte by byte, for the words starting at address a.
OrBytes(r, a, bytes) ==
    WriteBytes(r, a, [i \in 1 .. Len(bytes) |->
                         BitOr(ReadByte(r, a + i - 1), bytes[i])])

\* The four bytes of a word given by its bits 23..0 and its bits 31..24.
WordBytes(low24, high8) ==
    <<low24 % 256, (low24 \div 256) % 256, (low24 \div 65536) % 256, high8>>

\* changeBitAtOffset on a register held as the set of its set bits.
changeBitAtOffset(reg, offset, value) ==
    IF value THEN reg \cup {offset} ELSE reg \ {offset}

(***************************************************************************)
(* State after Mcan_init on a device out of reset: the descriptor is       *)
(* zeroed by memset, the registers hold 0.                                 *)
(***************************************************************************)
ResetRegisters ==
    [canDmaBase |-> 0,
     cccr |-> {}, initReq |-> FALSE, test |-> {},
     gfc |-> [RRFS |-> FALSE, RRFE |-> FALSE, ANFS |-> 0, ANFE |-> 0],
     nbtp |-> <<0, 0, 0, 0>>, dbtp |-> <<0, 0, 0, 0>>, dbtpTDC |-> FALSE,
     tdcr |-> <<0, 0>>, tscc |-> <<0, 0>>, tscv |-> 0, tocc |-> <<0, 0, 0>>,
     sidfc |-> [FLSSA |-> 0, LSS |-> 0],
     xidfc |-> [FLESA |-> 0, LSE |-> 0],
     rxf0c |-> [SA |-> 0, S |-> 0, WM |-> 0, OM |-> 0],
     rxf1c |-> [SA |-> 0, S |-> 0, WM |-> 0, OM |-> 0],
     rxbc |-> 0,
     rxesc |-> [F0DS |-> 0, F1DS |-> 0, RBDS |-> 0],
     txbc |-> [TBSA |-> 0, NDTB |-> 0, TFQS |-> 0, TFQM |-> 0],
     txesc |-> 0,
     txefc |-> [EFSA |-> 0, EFS |-> 0, EFWM |-> 0],
     ir |-> {}, ie |-> {}, ils |-> {},
     ile |-> [EINT0 |-> FALSE, EINT1 |-> FALSE],
     txbtie |-> {}, txbcie |-> {}, rwd |-> 0, xidam |-> 0,
     txbrp |-> {}, txbto |-> {},
     txfqs |-> [TFFL |-> 0, TFGI |-> 0, TFQPI |-> 0, TFQF |-> FALSE],
     rxf0s |-> [FL |-> 0, GI |-> 0, PI |-> 0],
     rxf1s |-> [FL |-> 0, GI |-> 0, PI |-> 0],
     rxf0a |-> 0, rxf1a |-> 0,
     txefs |-> [FL |-> 0, GI |-> 0, PI |-> 0],
     txefa |-> 0]

EmptyRxFifo == [address |-> NULL, size |-> 0, elementSize |-> 0]

Mcan_init ==
    [msgRamBaseAddress |-> NULL,
     reg |-> ResetRegisters,
     tx |-> [bufferAddress |-> NULL, bufferSize |-> 0,
             queueAddress |-> NULL, queueSize |-> 0, elementSize |-> 0],
     rxBufferAddress |-> NULL, rxBufferElementSize |-> 0,
     rxFifo0 |-> EmptyRxFifo, rxFifo1 |-> EmptyRxFifo,
     txEventFifoAddress |-> NULL, txEventFifoSize |-> 0,
     rxStdFilterAddress |-> NULL, rxStdFilterSize |-> 0,
     rxExtFilterAddress |-> NULL, rxExtFilterSize |-> 0]

\* The message RAM regions, each with its configuration registers (or
\* register fields) and its recorded descriptor.
Regions ==
    {"stdFilter", "extFilter", "rxFifo0", "rxFifo1", "rxBuffer", "tx",
     "txEventFifo"}

Region(m, r) ==
    CASE r = "stdFilter" ->
             <<m.reg.sidfc, m.rxStdFilterAddress, m.rxStdFilterSize>>
      [] r = "extFilter" ->
             <<m.reg.xidfc, m.rxExtFilterAddress, m.rxExtFilterSize>>
      [] r = "rxFifo0" ->
             <<m.reg.rxf0c, m.reg.rxesc.F0DS, m.rxFifo0.address,
               m.rxFifo0.size, m.rxFifo0.elementSize>>
      [] r = "rxFifo1" ->
             <<m.reg.rxf1c, m.reg.rxesc.F1DS, m.rxFifo1.address,
               m.rxFifo1.size, m.rxFifo1.elementSize>>
      [] r = "rxBuffer" ->
             <<m.reg.rxbc, m.reg.rxesc.RBDS, m.rxBufferAddress,
               m.rxBufferElementSize>>
      [] r = "tx" ->
             <<m.reg.txbc, m.reg.txesc, m.tx.bufferAddress, m.tx.bufferSize,
               m.tx.queueAddress, m.tx.queueSize, m.tx.elementSize>>
      [] r = "txEventFifo" ->
             <<m.reg.txefc, m.txEventFifoAddress, m.txEventFifoSize>>

(***************************************************************************)
(* CCCR.  reg.cccr is the value a read returns.  A write of INIT = 1 is    *)
(* latched in initReq and shows in cccr once the hardware has acknowledged *)
(* it (HwInitAck); a write of INIT = 0 shows at once.  CSA is read-only.   *)
(***************************************************************************)
WriteCccr(m, value) ==
    [m EXCEPT !.reg.cccr = (value \ {"INIT", "CSA"})
                           \cup (m.reg.cccr \cap {"CSA"})
                           \cup (IF "INIT" \in value
                                 THEN m.reg.cccr \cap {"INIT"} ELSE {}),
              !.reg.initReq = ("INIT" \in value)]

(***************************************************************************)
(* Element Codec.                                                          *)
(***************************************************************************)
decodeElementSizeInBytes(size) ==
    CASE size = 0 -> 8
      [] size = 1 -> 12
      [] size = 2 -> 16
      [] size = 3 -> 20
      [] size = 4 -> 24
      [] size = 5 -> 32
      [] size = 6 -> 48
      [] size = 7 -> 64
      [] OTHER -> Mcan_DataLengthRaw_Invalid

\* (uint8_t)(elementSize + MCAN_TXELEMENT_DATA_WORD * sizeof(uint32_t))
decodeTxElementSizeInBytes(size) ==
    (decodeElementSizeInBytes(size) + MCAN_TXELEMENT_DATA_WORD * 4) % 256

decodeRxElementSizeInBytes(size) ==
    (decodeElementSizeInBytes(size) + MCAN_RXELEMENT_DATA_WORD * 4) % 256

encodeElementSize(size) ==
    CASE size = 8 -> 0
      [] size = 12 -> 1
      [] size = 16 -> 2
      [] size = 20 -> 3
      [] size = 24 -> 4
      [] size = 32 -> 5
      [] size = 48 -> 6
      [] size = 64 -> 7
      [] OTHER -> Mcan_ElementSize_Invalid

encodeTxElementSizeInBytes_withoutHeader(size) == encodeElementSize(size)

\* (uint8_t)(size - MCAN_TXELEMENT_DATA_WORD * sizeof(uint32_t))
encodeTxElementSizeInBytes(size) ==
    encodeElementSize((size - MCAN_TXELEMENT_DATA_WORD * 4) % 256)

encodeRxElementSizeInBytes(size) ==
    encodeElementSize((size - MCAN_RXELEMENT_DATA_WORD * 4) % 256)

(***************************************************************************)
(* Mcan_setConfig: the functions it calls, each as the descriptor after    *)
(* the call.                                                               *)
(***************************************************************************)
setMsgRamBaseAddress(m, config) ==
    [m EXCEPT !.msgRamBaseAddress = config.msgRamBaseAddress,
              !.reg.canDmaBase = config.msgRamBaseAddress \div 65536]

setPowerDownMode_withoutRequest(m) == m

\* The statement before the polling loop of setPowerDownMode.
setPowerDownMode(m) == WriteCccr(m, m.reg.cccr \cup {"CSR"})

\* setMode up to its return or, for PowerDown, up to the polling loop.
\* result is "true", "wait" (the loop of setPowerDownMode decides) or the
\* error code; reads is the number of reads of CCCR made (one per |=).
setMode(m, config) ==
    LET fd == IF config.isFdEnabled
              THEN WriteCccr(m, m.reg.cccr \cup {"FDOE"}) ELSE m
        fdReads == IF config.isFdEnabled THEN 1 ELSE 0
        Or(bit) == WriteCccr(fd, fd.reg.cccr \cup {bit})
    IN CASE config.mode = "Normal" ->
                [m |-> fd, result |-> "true", reads |-> fdReads]
         [] config.mode = "AutomaticRetransmissionDisabled" ->
                [m |-> Or("DAR"), result |-> "true", reads |-> fdReads + 1]
         [] config.mode = "Restricted" ->
                [m |-> Or("ASM"), result |-> "true", reads |-> fdReads + 1]
         [] config.mode = "BusMonitoring" ->
                [m |-> Or("MON"), result |-> "true", reads |-> fdReads + 1]
         [] config.mode = "PowerDown" ->
                [m |-> setPowerDownMode(fd), result |-> "wait",
                 reads |-> fdReads + 1]
         [] config.mode = "InternalLoopBackTest" ->
                [m |-> [WriteCccr(fd, fd.reg.cccr \cup {"TEST", "MON"})
                           EXCEPT !.reg.test = {"LBCK"}],
                 result |-> "true", reads |-> fdReads + 2]
         [] OTHER -> [m |-> fd, result |-> "ModeInvalid", reads |-> fdReads]

\* The mode and the CAN FD flag that Mcan_getConfig reports: [isFdEnabled,
\* mode] as getMode reads them from CCCR and TEST.
getMode(m) ==
    LET cccr == m.reg.cccr
        mode ==
            IF "INIT" \in cccr
            THEN IF "CSR" \in cccr /\ "CSA" \in cccr
                 THEN "PowerDown" ELSE "Invalid"
            ELSE IF "CSR" \in cccr \/ "CSA" \in cccr THEN "Invalid"
            ELSE IF "TEST" \in cccr /\ "MON" \in cccr
                 THEN IF "LBCK" \in m.reg.test
                      THEN "InternalLoopBackTest" ELSE "Invalid"
            ELSE IF "MON" \in cccr THEN "BusMonitoring"
            ELSE IF "TEST" \in cccr THEN "Invalid"
            ELSE IF "ASM" \in cccr THEN "Restricted"
            ELSE IF "DAR" \in cccr
                 THEN "AutomaticRetransmissionDisabled"
            ELSE "Normal"
    IN [isFdEnabled |-> ("FDOE" \in cccr), mode |-> mode]

setNominalTiming(m, config) ==
    LET t == config.nominalBitTiming
    IN [m EXCEPT !.reg.nbtp =
            <<t.bitRatePrescaler, t.timeSegmentAfterSamplePoint,
              t.timeSegmentBeforeSamplePoint, t.synchronizationJump>>]

setDataTiming(m, config) ==
    LET t == config.dataBitTiming
    IN [m EXCEPT !.reg.dbtp =
            <<t.bitRatePrescaler, t.timeSegmentAfterSamplePoint,
              t.timeSegmentBeforeSamplePoint, t.synchronizationJump>>,
                 !.reg.dbtpTDC = FALSE]

setTransmitterDelayCompensation(m, config) ==
    [m EXCEPT !.reg.dbtpTDC = config.isEnabled,
              !.reg.tdcr = <<config.filter, config.offset>>]

setTimestamp(m, config) ==
    [m EXCEPT !.reg.tscc = <<config.timestampClk,
                             config.timestampTimeoutPrescaler>>,
              !.reg.tscv = 0]

setTimeout(m, config) ==
    [m EXCEPT !.reg.tocc = IF config.isEnabled
                           THEN <<1, config.type, config.period>>
                           ELSE <<0, 0, 0>>]

setStandardIdFiltering(m, config) ==
    LET f == config.standardIdFilter
    IN IF f.isIdRejected
       THEN [m EXCEPT !.reg.gfc.RRFS = TRUE,
                      !.reg.sidfc = [FLSSA |-> 0, LSS |-> 0],
                      !.rxStdFilterAddress = NULL,
                      !.rxStdFilterSize = 0]
       ELSE [m EXCEPT !.reg.gfc.ANFS = BIT_FIELD_VALUE(2, f.nonMatchingPolicy),
                      !.reg.sidfc =
                          [FLSSA |-> AddressField(f.filterListAddress),
                           LSS |-> BIT_FIELD_VALUE(8, f.filterListSize)],
                      !.rxStdFilterAddress = f.filterListAddress,
                      !.rxStdFilterSize = f.filterListSize]

setExtendedIdFiltering(m, config) ==
    LET f == config.extendedIdFilter
    IN IF f.isIdRejected
       THEN [m EXCEPT !.reg.gfc.RRFE = TRUE,
                      !.reg.xidfc = [FLESA |-> 0, LSE |-> 0],
                      !.rxExtFilterAddress = NULL,
                      !.rxExtFilterSize = 0]
       ELSE [m EXCEPT !.reg.gfc.ANFE = BIT_FIELD_VALUE(2, f.nonMatchingPolicy),
                      !.reg.xidfc =
                          [FLESA |-> AddressField(f.filterListAddress),
                           LSE |-> BIT_FIELD_VALUE(7, f.filterListSize)],
                      !.rxExtFilterAddress = f.filterListAddress,
                      !.rxExtFilterSize = f.filterListSize]

setRxFifo0(m, config) ==
    LET f == config.rxFifo0
    IN IF f.isEnabled
       THEN [m EXCEPT !.reg.rxf0c =
                          [SA |-> AddressField(f.startAddress),
                           S |-> BIT_FIELD_VALUE(7, f.size),
                           WM |-> BIT_FIELD_VALUE(7, f.watermark),
                           OM |-> BIT_FIELD_VALUE(1, f.mode)],
                      !.reg.rxesc.F0DS = BIT_FIELD_VALUE(3, f.elementSize),
                      !.rxFifo0 =
                          [address |-> f.startAddress,
                           size |-> f.size,
                           elementSize |->
                               decodeRxElementSizeInBytes(f.elementSize)]]
       ELSE [m EXCEPT !.reg.rxf0c = [SA |-> 0, S |-> 0, WM |-> 0, OM |-> 0],
                      !.reg.rxesc.F0DS = 0,
                      !.rxFifo0 = EmptyRxFifo]

setRxFifo1(m, config) ==
    LET f == config.rxFifo1
    IN IF f.isEnabled
       THEN [m EXCEPT !.reg.rxf1c =
                          [SA |-> AddressField(f.startAddress),
                           S |-> BIT_FIELD_VALUE(7, f.size),
                           WM |-> BIT_FIELD_VALUE(7, f.watermark),
                           OM |-> BIT_FIELD_VALUE(1, f.mode)],
                      !.reg.rxesc.F1DS = BIT_FIELD_VALUE(3, f.elementSize),
                      !.rxFifo1 =
                          [address |-> f.startAddress,
                           size |-> f.size,
                           elementSize |->
                               decodeRxElementSizeInBytes(f.elementSize)]]
       ELSE [m EXCEPT !.reg.rxf1c = [SA |-> 0, S |-> 0, WM |-> 0, OM |-> 0],
                      !.reg.rxesc.F1DS = 0,
                      !.rxFifo1 = EmptyRxFifo]

setRxBuffer(m, config) ==
    LET b == config.rxBuffer
    IN [m EXCEPT !.reg.rxbc = AddressField(b.startAddress),
                 !.reg.rxesc.RBDS = BIT_FIELD_VALUE(3, b.elementSize),
                 !.rxBufferAddress = b.startAddress,
                 !.rxBufferElementSize =
                     decodeRxElementSizeInBytes(b.elementSize)]

\* result is "true", "false" (invalid element size) or "abort" (the
\* assertion on bufferSize + queueSize fails in a build with assertions).
\* &config->txBuffer.startAddress[(txElementSize * bufferSize) / sizeof(uint32_t)]
txQueueAddress_atStart(startAddress, txElementSize, bufferSize) ==
    startAddress

txQueueAddress(startAddress, txElementSize, bufferSize) ==
    startAddress + 4 * ((txElementSize * bufferSize) \div 4)

setTxBuffer(m, config, assertionsEnabled) ==
    LET b == config.txBuffer
        txElementSize == decodeTxElementSizeInBytes(b.elementSize)
    IN IF b.isEnabled
       THEN IF txElementSize = MCAN_TXELEMENT_SIZE_INVALID
            THEN [m |-> m, result |-> "false"]
            ELSE IF assertionsEnabled
                    /\ ~(b.bufferSize + b.queueSize <= MaxTxElements)
            THEN [m |-> m, result |-> "abort"]
            ELSE [m |-> [m EXCEPT
                      !.reg.txbc =
                          [TBSA |-> AddressField(b.startAddress),
                           NDTB |-> BIT_FIELD_VALUE(6, b.bufferSize),
                           TFQS |-> BIT_FIELD_VALUE(6, b.queueSize),
                           TFQM |-> BIT_FIELD_VALUE(1, b.queueType)],
                      !.reg.txesc = BIT_FIELD_VALUE(3, b.elementSize),
                      !.tx = [bufferAddress |-> b.startAddress,
                              bufferSize |-> b.bufferSize,
                              queueAddress |->
                                  txQueueAddress(b.startAddress,
                                                 txElementSize,
                                                 b.bufferSize),
                              queueSize |-> b.queueSize,
                              elementSize |-> txElementSize]],
                  result |-> "true"]
       ELSE [m |-> [m EXCEPT
                 !.reg.txbc = [TBSA |-> 0, NDTB |-> 0, TFQS |-> 0, TFQM |-> 0],
                 !.reg.txesc = 0,
                 !.tx = [bufferAddress |-> NULL, bufferSize |-> 0,
                         queueAddress |-> NULL, queueSize |-> 0,
                         elementSize |-> 0]],
             result |-> "true"]

\* setTxEventFifo without its else branch.
setTxEventFifo_enabledOnly(m, config) ==
    LET f == config.txEventFifo
    IN IF f.isEnabled
       THEN [m EXCEPT !.reg.txefc =
                          [EFSA |-> AddressField(f.startAddress),
                           EFS |-> BIT_FIELD_VALUE(6, f.size),
                           EFWM |-> BIT_FIELD_VALUE(6, f.watermark)],
                      !.txEventFifoAddress = f.startAddress,
                      !.txEventFifoSize = f.size]
       ELSE m

setTxEventFifo(m, config) ==
    LET f == config.txEventFifo
    IN IF f.isEnabled
       THEN [m EXCEPT !.reg.txefc =
                          [EFSA |-> AddressField(f.startAddress),
                           EFS |-> BIT_FIELD_VALUE(6, f.size),
                           EFWM |-> BIT_FIELD_VALUE(6, f.watermark)],
                      !.txEventFifoAddress = f.startAddress,
                      !.txEventFifoSize = f.size]
       ELSE [m EXCEPT !.reg.txefc = [EFSA |-> 0, EFS |-> 0, EFWM |-> 0],
                      !.txEventFifoAddress = NULL,
                      !.txEventFifoSize = 0]

Mcan_Interrupt_Count == 30
Mcan_Interrupt_Reserved1 == 20
Mcan_Interrupt_Reserved2 == 21

\* config.interrupts is given by the set of enabled interrupts and the set
\* of interrupts routed to line 1.
setInterrupts(m, config) ==
    LET used == (0 .. (Mcan_Interrupt_Count - 1))
                \ {Mcan_Interrupt_Reserved1, Mcan_Interrupt_Reserved2}
    IN [m EXCEPT !.reg.ir = @ \ used,
                 !.reg.ie = (@ \ used) \cup (config.interrupts.enabled \cap used),
                 !.reg.ils = (@ \ used) \cup (config.interrupts.line1 \cap used),
                 !.reg.ile = [EINT0 |-> config.isLine0InterruptEnabled,
                              EINT1 |-> config.isLine1InterruptEnabled],
                 !.reg.txbtie = {},
                 !.reg.txbcie = {}]

(***************************************************************************)
(* The configurations and arguments the callers pass.                      *)
(***************************************************************************)
\* Message RAM: a 64 KiB aligned area, one sub-area per region.
MsgRamBase == 32 * 65536
StdFilterArea == MsgRamBase + 0 * 256
ExtFilterArea == MsgRamBase + 1 * 256
RxFifo0Area == MsgRamBase + 2 * 256
RxFifo1Area == MsgRamBase + 4 * 256
RxBufferArea == MsgRamBase + 6 * 256
TxArea == MsgRamBase + 8 * 256
TxEventFifoArea == MsgRamBase + 16 * 256

ElementSizes == {Mcan_ElementSize_8, Mcan_ElementSize_Invalid}

BitTiming ==
    [bitRatePrescaler |-> 1, synchronizationJump |-> 1,
     timeSegmentAfterSamplePoint |-> 2, timeSegmentBeforeSamplePoint |-> 3]

RejectAll(area) ==
    [isIdRejected |-> TRUE, nonMatchingPolicy |-> 2,
     filterListAddress |-> area, filterListSize |-> RegionSize]

FilterList(area) ==
    [isIdRejected |-> FALSE, nonMatchingPolicy |-> 1,
     filterListAddress |-> area, filterListSize |-> RegionSize]

RxFifoDisabled(area) ==
    [isEnabled |-> FALSE, startAddress |-> area, size |-> RegionSize,
     watermark |-> 0, mode |-> 0, elementSize |-> Mcan_ElementSize_8]

RxFifoEnabled(area, elementSize) ==
    [isEnabled |-> TRUE, startAddress |-> area, size |-> RegionSize,
     watermark |-> 0, mode |-> 0, elementSize |-> elementSize]

RxBuffer(elementSize) ==
    [startAddress |-> RxBufferArea, elementSize |-> elementSize]

TxBufferDisabled ==
    [isEnabled |-> FALSE, startAddress |-> TxArea, bufferSize |-> RegionSize,
     queueSize |-> RegionSize, queueType |-> 0,
     elementSize |-> Mcan_ElementSize_8]

TxBufferEnabled(bufferSize, queueSize, elementSize) ==
    [isEnabled |-> TRUE, startAddress |-> TxArea, bufferSize |-> bufferSize,
     queueSize |-> queueSize, queueType |-> 0, elementSize |-> elementSize]

TxEventFifo(isEnabled) ==
    [isEnabled |-> isEnabled, startAddress |-> TxEventFifoArea,
     size |-> RegionSize, watermark |-> 0]

NoInterrupts == [enabled |-> {}, line1 |-> {}]

\* Buffer and queue sizes: a small area, the largest legal area and one
\* element more than the largest legal area.
TxSizes ==
    {<<RegionSize, RegionSize>>,
     <<MaxTxElements - RegionSize, RegionSize>>,
     <<MaxTxElements - RegionSize + 1, RegionSize>>}

\* What the callers of a behaviour vary from one call of Mcan_setConfig to
\* the next: the mode, the CAN-FD flag and the timeout ("modes"), the
\* filters, the Rx buffer and the interrupts ("filters"), or the layout of
\* the FIFOs and of the Tx area ("regions"), or the 64 KiB page of the base
\* and of the Rx FIFOs ("bases").  The rest of the configuration is the same
\* in every call of the behaviour.
Scenarios == {"modes", "filters", "regions", "bases"}

\* A base on a 64 KiB boundary and one in the middle of the page.
MsgRamBases ==
    IF scenario = "bases"
    THEN {MsgRamBase, MsgRamBase + 32768}
    ELSE {MsgRamBase}

ModeArguments ==
    IF scenario = "modes"
    THEN {<<mode, fd, limit>> : mode \in Mcan_Modes, fd \in BOOLEAN,
                                limit \in 0 .. MaxTimeout}
    ELSE {<<"Normal", FALSE, MaxTimeout>>}

IdFilterConfigs ==
    IF scenario = "filters"
    THEN {<<FilterList(StdFilterArea), RejectAll(ExtFilterArea)>>,
          <<RejectAll(StdFilterArea), FilterList(ExtFilterArea)>>}
    ELSE {<<FilterList(StdFilterArea), RejectAll(ExtFilterArea)>>}

RxFifoConfigs(area) ==
    IF scenario = "regions"
    THEN {RxFifoDisabled(area)}
         \cup {RxFifoEnabled(area, es) : es \in ElementSizes}
    ELSE IF scenario = "bases"
    THEN {RxFifoEnabled(area, Mcan_ElementSize_8),
          RxFifoEnabled(area + 65536, Mcan_ElementSize_8)}
    ELSE {RxFifoEnabled(area, Mcan_ElementSize_8)}

RxBufferConfigs ==
    IF scenario = "filters"
    THEN {RxBuffer(es) : es \in ElementSizes}
    ELSE {RxBuffer(Mcan_ElementSize_8)}

TxBufferConfigs ==
    IF scenario = "regions"
    THEN {TxBufferDisabled,
          TxBufferEnabled(RegionSize, RegionSize, Mcan_ElementSize_Invalid)}
         \cup {TxBufferEnabled(sz[1], sz[2], Mcan_ElementSize_8) :
                   sz \in TxSizes}
    ELSE {TxBufferEnabled(RegionSize, RegionSize, Mcan_ElementSize_8)}

TxEventFifoConfigs ==
    IF scenario = "regions"
    THEN {TxEventFifo(e) : e \in BOOLEAN}
    ELSE {TxEventFifo(TRUE)}

InterruptConfigs ==
    IF scenario = "filters"
    THEN {NoInterrupts, [enabled |-> {0, 9}, line1 |-> {9}]}
    ELSE {NoInterrupts}

\* The configuration descriptor before any part of it has been read.
UnreadConfig ==
    [msgRamBaseAddress |-> NULL, mode |-> "Normal", isFdEnabled |-> FALSE,
     timeoutLimit |-> 0,
     nominalBitTiming |-> BitTiming, dataBitTiming |-> BitTiming,
     transmitterDelayCompensation |->
         [isEnabled |-> TRUE, filter |-> 1, offset |-> 1],
     timestampClk |-> 1, timestampTimeoutPrescaler |-> 1,
     timeout |-> [isEnabled |-> TRUE, type |-> 0, period |-> 1],
     standardIdFilter |-> RejectAll(StdFilterArea),
     extendedIdFilter |-> RejectAll(ExtFilterArea),
     rxFifo0 |-> RxFifoDisabled(RxFifo0Area),
     rxFifo1 |-> RxFifoDisabled(RxFifo1Area),
     rxBuffer |-> RxBuffer(Mcan_ElementSize_8),
     txBuffer |-> TxBufferDisabled,
     txEventFifo |-> TxEventFifo(FALSE),
     interrupts |-> NoInterrupts,
     isLine0InterruptEnabled |-> FALSE, isLine1InterruptEnabled |-> FALSE,
     wdtCounter |-> 0]

NoReturn == [op |-> "none", ok |-> TRUE, errCode |-> "none", out |-> <<>>]

Return(op, errCode, out) ==
    [op |-> op, ok |-> (errCode = "none"), errCode |-> errCode, out |-> out]

\* The execution contexts that may call into the driver, and the frame of
\* the call each of them is in.
Contexts == {1, 2}

NoCall == [op |-> "none"]

NoCalls == [c \in Contexts |-> NoCall]

\* What the controller has stored or raised and the driver has not yet
\* handed to its caller, in the order of storage.
NothingPending ==
    [rxFifo0 |-> <<>>, rxFifo1 |-> <<>>, txEventFifo |-> <<>>, ir |-> {}]

\* A StructFifo that no call has initialised.
NoFifo ==
    [begin |-> NULL, end |-> NULL, first |-> NULL, last |-> NULL,
     elementSize |-> 0]

Init ==
    /\ mcan = Mcan_init
    /\ ram = EmptyRam
    /\ pc = "idle"
    /\ cfg = UnreadConfig
    /\ counter = 0
    /\ cccrReads = 0
    /\ ret = NoReturn
    /\ changed = {}
    /\ ndebug \in BOOLEAN
    /\ scenario \in Scenarios
    /\ calls = NoCalls
    /\ pending = NothingPending
    /\ structFifo = NoFifo
    /\ contents = <<>>

(***************************************************************************)
(* Mcan_setConfig, step by step.                                           *)
(***************************************************************************)
\* (uint32_t)(MCAN_CCCR_CCE_MASK | MCAN_CCCR_INIT_MASK)
ClearedCccr_withoutCce == {"INIT"}

ClearedCccr == {"CCE", "INIT"}

\* A step of the call leaves the descriptor m; `changed` holds the regions
\* of which the call has changed a register or the descriptor so far.
Configure(m) ==
    /\ mcan' = m
    /\ changed' = changed \cup {r \in Regions : Region(m, r) # Region(mcan, r)}

waitForRegisterWithTimeout_inclusive(bit, timeout) ==
    IF counter <= timeout
    THEN IF bit \in mcan.reg.cccr THEN "true" ELSE "again"
    ELSE "false"

\* One evaluation of the loop condition and body of
\* waitForRegisterWithTimeout on CCCR: "true" and "false" are its results,
\* "again" is the next iteration.
waitForRegisterWithTimeout(bit, timeout) ==
    IF counter < timeout
    THEN IF bit \in mcan.reg.cccr THEN "true" ELSE "again"
    ELSE "false"

\* Lines 455-457: the message RAM base and the initialization request.
Mcan_setConfig_begin ==
    /\ pc = "idle"
    /\ \E a \in ModeArguments, base \in MsgRamBases :
          cfg' = [UnreadConfig EXCEPT !.msgRamBaseAddress = base,
                                      !.mode = a[1],
                                      !.isFdEnabled = a[2],
                                      !.timeoutLimit = a[3]]
    /\ mcan' = WriteCccr(setMsgRamBaseAddress(mcan, cfg'), {"INIT"})
    /\ changed' = {r \in Regions : Region(mcan', r) # Region(mcan, r)}
    /\ pc' = "waitInit"
    /\ counter' = 0
    /\ cccrReads' = 0
    /\ UNCHANGED <<ram, ret, ndebug, scenario, calls,
                   pending, structFifo, contents>>

\* Lines 459-462: the loop waiting for CCCR.INIT.
Mcan_setConfig_waitInit ==
    /\ pc = "waitInit"
    /\ LET r == waitForRegisterWithTimeout("INIT", cfg.timeoutLimit)
       IN /\ cccrReads' = IF r = "false" THEN cccrReads ELSE cccrReads + 1
          /\ counter' = IF r = "again" THEN counter + 1 ELSE counter
          /\ pc' = CASE r = "true" -> "enable"
                     [] r = "again" -> "waitInit"
                     [] OTHER -> "idle"
          /\ ret' = IF r = "false"
                    THEN Return("Mcan_setConfig",
                                "InitializationStartTimeout", <<>>)
                    ELSE ret
    /\ UNCHANGED <<mcan, ram, cfg, changed, ndebug, scenario, calls,
                   pending, structFifo, contents>>

\* Lines 464-469: configuration change enable, CCCR and GFC cleared.
EnableChange(m) ==
    WriteCccr(WriteCccr(m, m.reg.cccr \cup {"CCE"}), ClearedCccr)

\* Line 469.
ClearGfc(m) ==
    [m EXCEPT
        !.reg.gfc = [RRFS |-> FALSE, RRFE |-> FALSE, ANFS |-> 0, ANFE |-> 0]]

EnableConfiguration(m) == ClearGfc(EnableChange(m))

\* Lines 464-467: the write-protected registers are opened.
Mcan_setConfig_enable ==
    /\ pc = "enable"
    /\ Configure(EnableChange(mcan))
    /\ pc' = "setMode"
    /\ cccrReads' = cccrReads + 1
    /\ UNCHANGED <<ram, cfg, counter, ret, ndebug, scenario, calls,
                   pending, structFifo, contents>>

\* Lines 469-472: GFC cleared, and setMode.
Mcan_setConfig_setMode ==
    /\ pc = "setMode"
    /\ LET r == setMode(ClearGfc(mcan), cfg)
       IN /\ Configure(r.m)
          /\ pc' = CASE r.result = "true" -> "setTiming"
                     [] r.result = "wait" -> "waitCsa"
                     [] OTHER -> "idle"
          /\ ret' = IF r.result \in {"true", "wait"} THEN ret
                    ELSE Return("Mcan_setConfig", r.result, <<>>)
          /\ cccrReads' = cccrReads + r.reads
    /\ counter' = 0
    /\ UNCHANGED <<ram, cfg, ndebug, scenario, calls,
                   pending, structFifo, contents>>

\* Lines 121-126: the loop of setPowerDownMode waiting for CCCR.CSA.
Mcan_setConfig_waitCsa ==
    /\ pc = "waitCsa"
    /\ LET r == waitForRegisterWithTimeout("CSA", cfg.timeoutLimit)
       IN /\ cccrReads' = IF r = "false" THEN cccrReads ELSE cccrReads + 1
          /\ counter' = IF r = "again" THEN counter + 1 ELSE counter
          /\ pc' = CASE r = "true" -> "setTiming"
                     [] r = "again" -> "waitCsa"
                     [] OTHER -> "idle"
          /\ ret' = IF r = "false"
                    THEN Return("Mcan_setConfig",
                                "ClockStopRequestTimeout", <<>>)
                    ELSE ret
    /\ UNCHANGED <<mcan, ram, cfg, changed, ndebug, scenario, calls,
                   pending, structFifo, contents>>

\* Lines 474-481: bit timing, timestamp and timeout counter.
SetTiming(m, config) ==
    LET nominal == setNominalTiming(m, config)
        data == IF config.isFdEnabled
                THEN setTransmitterDelayCompensation(
                         setDataTiming(nominal, config),
                         config.transmitterDelayCompensation)
                ELSE nominal
    IN setTimeout(setTimestamp(data, config), config.timeout)

Mcan_setConfig_setTiming ==
    /\ pc = "setTiming"
    /\ Configure(SetTiming(mcan, cfg))
    /\ pc' = "setFiltering"
    /\ UNCHANGED <<ram, cfg, counter, cccrReads, ret, ndebug, scenario, calls,
                   pending, structFifo, contents>>

\* Lines 482-483.
Mcan_setConfig_setFiltering ==
    /\ pc = "setFiltering"
    /\ \E f \in IdFilterConfigs :
          cfg' = [cfg EXCEPT !.standardIdFilter = f[1],
                             !.extendedIdFilter = f[2]]
    /\ Configure(setExtendedIdFiltering(setStandardIdFiltering(mcan, cfg'),
                                        cfg'))
    /\ pc' = "setRxFifo0"
    /\ UNCHANGED <<ram, counter, cccrReads, ret, ndebug, scenario, calls,
                   pending, structFifo, contents>>

\* Line 484.
Mcan_setConfig_setRxFifo0 ==
    /\ pc = "setRxFifo0"
    /\ \E f \in RxFifoConfigs(RxFifo0Area) : cfg' = [cfg EXCEPT !.rxFifo0 = f]
    /\ Configure(setRxFifo0(mcan, cfg'))
    /\ pc' = "setRxFifo1"
    /\ UNCHANGED <<ram, counter, cccrReads, ret, ndebug, scenario, calls,
                   pending, structFifo, contents>>

\* Line 485.
Mcan_setConfig_setRxFifo1 ==
    /\ pc = "setRxFifo1"
    /\ \E f \in RxFifoConfigs(RxFifo1Area) : cfg' = [cfg EXCEPT !.rxFifo1 = f]
    /\ Configure(setRxFifo1(mcan, cfg'))
    /\ pc' = "setRxBuffer"
    /\ UNCHANGED <<ram, counter, cccrReads, ret, ndebug, scenario, calls,
                   pending, structFifo, contents>>

\* Line 486.
Mcan_setConfig_setRxBuffer ==
    /\ pc = "setRxBuffer"
    /\ \E b \in RxBufferConfigs : cfg' = [cfg EXCEPT !.rxBuffer = b]
    /\ Configure(setRxBuffer(mcan, cfg'))
    /\ pc' = "setTxBuffer"
    /\ UNCHANGED <<ram, counter, cccrReads, ret, ndebug, scenario, calls,
                   pending, structFifo, contents>>

\* Lines 487-488.
Mcan_setConfig_setTxBuffer ==
    /\ pc = "setTxBuffer"
    /\ \E b \in TxBufferConfigs : cfg' = [cfg EXCEPT !.txBuffer = b]
    /\ LET r == setTxBuffer(mcan, cfg', ~ndebug)
       IN /\ Configure(r.m)
          /\ pc' = CASE r.result = "true" -> "setTxEventFifo"
                     [] r.result = "abort" -> "aborted"
                     [] OTHER -> "idle"
          /\ ret' = IF r.result = "false"
                    THEN Return("Mcan_setConfig", "ElementSizeInvalid", <<>>)
                    ELSE ret
    /\ UNCHANGED <<ram, counter, cccrReads, ndebug, scenario, calls,
                   pending, structFifo, contents>>

\* Line 489.
Mcan_setConfig_setTxEventFifo ==
    /\ pc = "setTxEventFifo"
    /\ \E f \in TxEventFifoConfigs : cfg' = [cfg EXCEPT !.txEventFifo = f]
    /\ Configure(setTxEventFifo(mcan, cfg'))
    /\ pc' = "setInterrupts"
    /\ UNCHANGED <<ram, counter, cccrReads, ret, ndebug, scenario, calls,
                   pending, structFifo, contents>>

\* Lines 490-496: interrupts, RAM watchdog, extended ID mask.
ConfigureInterrupts(m, config) ==
    [setInterrupts(m, config) EXCEPT
        !.reg.rwd = BIT_FIELD_VALUE(8, config.wdtCounter),
        !.reg.xidam = 1]

\* mcan->reg.base->cccr &= ~MCAN_CCCR_INIT_MASK with the INIT bit kept.
ClearInit_keepingInit(m) == m

\* Line 498: the end of the initialization.
ClearInit(m) == WriteCccr(m, m.reg.cccr \ {"INIT"})

EndConfiguration(m, config) == ClearInit(ConfigureInterrupts(m, config))

Mcan_setConfig_setInterrupts ==
    /\ pc = "setInterrupts"
    /\ \E i \in InterruptConfigs :
          cfg' = [cfg EXCEPT !.interrupts = i,
                             !.isLine0InterruptEnabled = (i.enabled # {}),
                             !.isLine1InterruptEnabled = (i.line1 # {}),
                             !.wdtCounter = Cardinality(i.enabled)]
    /\ Configure(ConfigureInterrupts(mcan, cfg'))
    /\ pc' = "clearInit"
    /\ UNCHANGED <<ram, counter, cccrReads, ret, ndebug, scenario, calls,
                   pending, structFifo, contents>>

\* Lines 498-500.
Mcan_setConfig_end ==
    /\ pc = "clearInit"
    /\ Configure(ClearInit(mcan))
    /\ pc' = "idle"
    /\ ret' = Return("Mcan_setConfig", "none", <<>>)
    /\ cccrReads' = cccrReads + 1
    /\ UNCHANGED <<ram, cfg, counter, ndebug, scenario, calls,
                   pending, structFifo, contents>>

(***************************************************************************)
(* The controller's side of the CCCR handshakes.                           *)
(***************************************************************************)
HwInitAck ==
    /\ mcan.reg.initReq
    /\ "INIT" \notin mcan.reg.cccr
    /\ mcan' = [mcan EXCEPT !.reg.cccr = @ \cup {"INIT"}]
    /\ UNCHANGED <<ram, pc, cfg, counter, cccrReads, ret, changed,
                   ndebug, scenario, calls,
                   pending, structFifo, contents>>

HwClockStopAck ==
    /\ "CSR" \in mcan.reg.cccr
    /\ "CSA" \notin mcan.reg.cccr
    /\ mcan' = [mcan EXCEPT !.reg.cccr = @ \cup {"CSA"}]
    /\ UNCHANGED <<ram, pc, cfg, counter, cccrReads, ret, changed,
                   ndebug, scenario, calls,
                   pending, structFifo, contents>>

HwClockStopRelease ==
    /\ "CSR" \notin mcan.reg.cccr
    /\ "CSA" \in mcan.reg.cccr
    /\ mcan' = [mcan EXCEPT !.reg.cccr = @ \ {"CSA"}]
    /\ UNCHANGED <<ram, pc, cfg, counter, cccrReads, ret, changed,
                   ndebug, scenario, calls,
                   pending, structFifo, contents>>

Next ==
    \/ Mcan_setConfig_begin
    \/ Mcan_setConfig_waitInit
    \/ Mcan_setConfig_enable
    \/ Mcan_setConfig_setMode
    \/ Mcan_setConfig_waitCsa
    \/ Mcan_setConfig_setTiming
    \/ Mcan_setConfig_setFiltering
    \/ Mcan_setConfig_setRxFifo0
    \/ Mcan_setConfig_setRxFifo1
    \/ Mcan_setConfig_setRxBuffer
    \/ Mcan_setConfig_setTxBuffer
    \/ Mcan_setConfig_setTxEventFifo
    \/ Mcan_setConfig_setInterrupts
    \/ Mcan_setConfig_end
    \/ HwInitAck
    \/ HwClockStopAck
    \/ HwClockStopRelease

Spec == Init /\ [][Next]_vars

\* The statements of a call that is under way: the processor executes them
\* one after the other, whatever the controller does or fails to do.
Mcan_setConfig_step ==
    \/ Mcan_setConfig_waitInit
    \/ Mcan_setConfig_enable
    \/ Mcan_setConfig_setMode
    \/ Mcan_setConfig_waitCsa
    \/ Mcan_setConfig_setTiming
    \/ Mcan_setConfig_setFiltering
    \/ Mcan_setConfig_setRxFifo0
    \/ Mcan_setConfig_setRxFifo1
    \/ Mcan_setConfig_setRxBuffer
    \/ Mcan_setConfig_setTxBuffer
    \/ Mcan_setConfig_setTxEventFifo
    \/ Mcan_setConfig_setInterrupts
    \/ Mcan_setConfig_end

\* Spec with a processor that keeps executing; nothing is assumed of the
\* controller, which may never acknowledge.
SpecProgress == Spec /\ WF_vars(Mcan_setConfig_step)

(***************************************************************************)
(* Data length codes.                                                      *)
(***************************************************************************)
Mcan_DataLengthRaw_8 == 8
MCAN_DLC_INVALID == 247

encodeDataLengthCode_unchecked(size) == size % 16

encodeDataLengthCode(size) ==
    IF size <= Mcan_DataLengthRaw_8 THEN size
    ELSE CASE size = 12 -> 9
           [] size = 16 -> 10
           [] size = 20 -> 11
           [] size = 24 -> 12
           [] size = 32 -> 13
           [] size = 48 -> 14
           [] size = 64 -> 15
           [] OTHER -> MCAN_DLC_INVALID

\* decodeDataLengthCode without the test of isCanFdFrame.
decodeDataLengthCode_withoutClamp(dlc, isCanFdFrame) ==
    IF dlc <= Mcan_DataLengthRaw_8 THEN dlc
    ELSE CASE dlc = 9 -> 12
           [] dlc = 10 -> 16
           [] dlc = 11 -> 20
           [] dlc = 12 -> 24
           [] dlc = 13 -> 32
           [] dlc = 14 -> 48
           [] OTHER -> 64

decodeDataLengthCode(dlc, isCanFdFrame) ==
    IF dlc <= Mcan_DataLengthRaw_8 THEN dlc
    ELSE IF ~isCanFdFrame THEN Mcan_DataLengthRaw_8
    ELSE CASE dlc = 9 -> 12
           [] dlc = 10 -> 16
           [] dlc = 11 -> 20
           [] dlc = 12 -> 24
           [] dlc = 13 -> 32
           [] dlc = 14 -> 48
           [] OTHER -> 64

(***************************************************************************)
(* Transmission.                                                           *)
(***************************************************************************)
Bit(flag) == IF flag THEN 1 ELSE 0

\* The identifier field of the first word of an element: a standard
\* identifier sits in bits 28..18, an extended one in bits 28..0.
IdField(idType, id) ==
    IF idType = 0 THEN (id % 2048) * 262144 ELSE id % 536870912

\* The two header words of a Tx element: ESI, XTD, RTR and the identifier
\* in the first; MM, EFC, FDF, BRS and DLC in the second.
TxHeader(element, dataLengthCode) ==
    LET id == IdField(element.idType, element.id)
    IN WordBytes(id % 16777216,
                 (id \div 16777216) + 32 * (element.frameType % 2)
                 + 64 * (element.idType % 2) + 128 * (element.esiFlag % 2))
       \o WordBytes((dataLengthCode % 16) * 65536
                    + 1048576 * Bit(element.isBitRateSwitchingEnabled)
                    + 2097152 * Bit(element.isCanFdFormatEnabled)
                    + 8388608 * Bit(element.isTxEventStored),
                    element.marker % 256)

\* [ok, m, ram]: the result, the descriptor and the RAM after the call.
txAddElement(m, r, element, baseAddress, index) ==
    LET dataLengthCode == encodeDataLengthCode(element.dataSize)
        zeroed == Memset(r, baseAddress, m.tx.elementSize)
        header == OrBytes(zeroed, baseAddress,
                          TxHeader(element, dataLengthCode))
        copied == WriteBytes(header,
                             baseAddress + 4 * MCAN_TXELEMENT_DATA_WORD,
                             SubSeq(element.data, 1, element.dataSize))
    IN IF dataLengthCode = MCAN_DLC_INVALID
       THEN [ok |-> FALSE, m |-> m, ram |-> r]
       ELSE [ok |-> TRUE,
             m |-> [m EXCEPT !.reg.txbtie =
                       changeBitAtOffset(@, index,
                                         element.isInterruptEnabled)],
             ram |-> copied]

\* The controller's reaction to the write TXBAR = 1 << index: the request
\* is pending, and a request for the slot at the put index takes the slot
\* out of the free part of the Tx FIFO.
WriteTxbar_withoutPutIndex(m, index) ==
    [m EXCEPT !.reg.txbrp = @ \cup {index}, !.reg.txbto = @ \ {index}]

WriteTxbar(m, index) ==
    LET q == m.reg.txfqs
        first == m.reg.txbc.NDTB
        size == m.reg.txbc.TFQS
        queued == size > 0 /\ index = q.TFQPI /\ ~q.TFQF
    IN [m EXCEPT
           !.reg.txbrp = @ \cup {index},
           !.reg.txbto = @ \ {index},
           !.reg.txfqs =
               IF queued
               THEN [TFFL |-> q.TFFL - 1,
                     TFGI |-> q.TFGI,
                     TFQPI |-> first + ((q.TFQPI - first + 1) % size),
                     TFQF |-> (q.TFFL - 1 = 0)]
               ELSE q]

\* index >= mcan->tx.bufferSize
txBufferIndexOutOfRange_exclusive(m, index) == index > m.tx.bufferSize

txBufferIndexOutOfRange(m, index) == index >= m.tx.bufferSize

\* [m, ram, ret]
Mcan_txBufferAdd(m, r, element, index) ==
    LET bufferPointer ==
            m.tx.bufferAddress + 4 * ((m.tx.elementSize * index) \div 4)
        added == txAddElement(m, r, element, bufferPointer, index)
    IN IF txBufferIndexOutOfRange(m, index)
       THEN [m |-> m, ram |-> r,
             ret |-> Return("Mcan_txBufferAdd", "IndexOutOfRange", <<>>)]
       ELSE IF ~added.ok
       THEN [m |-> m, ram |-> r,
             ret |-> Return("Mcan_txBufferAdd", "ElementSizeInvalid", <<>>)]
       ELSE [m |-> WriteTxbar(added.m, index), ram |-> added.ram,
             ret |-> Return("Mcan_txBufferAdd", "none", <<>>)]

\* IS_BIT_SET(MCAN_TXFQS_TFQF, txfqs)
txQueueIsFull_never(txfqs) == FALSE

txQueueIsFull(txfqs) == txfqs.TFQF

\* (uint8_t)GET_FIELD_VALUE(MCAN_TXFQS_TFQPI, txfqs)
txQueuePutIndex_getIndex(txfqs) == txfqs.TFGI % 256

txQueuePutIndex(txfqs) == txfqs.TFQPI % 256

\* &mcan->tx.bufferAddress[(mcan->tx.elementSize * index) / sizeof(uint32_t)]
txElementAddress(m, index) ==
    m.tx.bufferAddress + 4 * ((m.tx.elementSize * index) \div 4)

\* [m, ram, ret]; ret.out holds *index.
Mcan_txQueuePush(m, r, element) ==
    LET txfqs == m.reg.txfqs
        index == txQueuePutIndex(txfqs)
        baseAddr == txElementAddress(m, index)
        added == txAddElement(m, r, element, baseAddr, index)
    IN IF txQueueIsFull(txfqs)
       THEN [m |-> m, ram |-> r,
             ret |-> Return("Mcan_txQueuePush", "TxFifoFull", <<>>)]
       ELSE IF ~added.ok
       THEN [m |-> m, ram |-> r,
             ret |-> Return("Mcan_txQueuePush", "ElementSizeInvalid",
                            <<index>>)]
       ELSE [m |-> WriteTxbar(added.m, index), ram |-> added.ram,
             ret |-> Return("Mcan_txQueuePush", "none", <<index>>)]

Mcan_txBufferIsTransmissionFinished(m, index) == index \in m.reg.txbto

(***************************************************************************)
(* Reception.                                                              *)
(***************************************************************************)
\* A received frame as the controller stores it: dlc is the 4-bit code.
RxFrame(idType, id, dlc, isCanFdFormatEnabled) ==
    [esiFlag |-> 0, idType |-> idType, frameType |-> 0, id |-> id,
     isNonMatchingFrame |-> (idType = 1), filterIndex |-> idType,
     isCanFdFormatEnabled |-> isCanFdFormatEnabled,
     isBitRateSwitchingEnabled |-> FALSE,
     timestamp |-> 256 + dlc, dlc |-> dlc,
     data |-> [i \in 1 .. decodeDataLengthCode(dlc, isCanFdFormatEnabled)
                  |-> (id + i) % 256]]

\* The two header words of an Rx element: ESI, XTD, RTR and the identifier
\* in the first; ANMF, FIDX, FDF, BRS, DLC and RXTS in the second.
RxHeader(frame) ==
    LET id == IdField(frame.idType, frame.id)
    IN WordBytes(id % 16777216,
                 (id \div 16777216) + 32 * frame.frameType
                 + 64 * frame.idType + 128 * frame.esiFlag)
       \o WordBytes((frame.timestamp % 65536)
                    + 65536 * frame.dlc
                    + 1048576 * Bit(frame.isBitRateSwitchingEnabled)
                    + 2097152 * Bit(frame.isCanFdFormatEnabled),
                    (frame.filterIndex % 128)
                    + 128 * Bit(frame.isNonMatchingFrame))

\* The element the driver reads at baseAddr.
getRxElement(r, baseAddr) ==
    LET w0 == ReadBytes(r, baseAddr, 4)
        w1 == ReadBytes(r, baseAddr + 4, 4)
        idBits == (w0[4] % 32) * 16777216 + w0[3] * 65536 + w0[2] * 256
                  + w0[1]
        idType == (w0[4] \div 64) % 2
        isCanFdFormatEnabled == (w1[3] \div 32) % 2 = 1
        dataSize == decodeDataLengthCode(w1[3] % 16, isCanFdFormatEnabled)
    IN [esiFlag |-> w0[4] \div 128,
        idType |-> idType,
        frameType |-> (w0[4] \div 32) % 2,
        id |-> IF idType = 0 THEN idBits \div 262144 ELSE idBits,
        isNonMatchingFrame |-> (w1[4] \div 128 = 1),
        filterIndex |-> w1[4] % 128,
        isCanFdFormatEnabled |-> isCanFdFormatEnabled,
        isBitRateSwitchingEnabled |-> ((w1[3] \div 16) % 2 = 1),
        timestamp |-> w1[2] * 256 + w1[1],
        dataSize |-> dataSize,
        data |-> ReadBytes(r, baseAddr + 4 * MCAN_RXELEMENT_DATA_WORD,
                           dataSize)]

\* The controller's reaction to the write RXFnA = index: the get index
\* moves behind the acknowledged element and the fill level drops.
WriteRxfa(status, size, index) ==
    IF size = 0 THEN status
    ELSE LET released == ((index - status.GI + size) % size) + 1
         IN [FL |-> IF status.FL > released THEN status.FL - released ELSE 0,
             GI |-> (index + 1) % size,
             PI |-> status.PI]

\* count == 0u
rxFifoIsEmpty_never(count) == FALSE

rxFifoIsEmpty(count) == count = 0

\* fifoAddress == NULL
rxFifoIsUnconfigured_never(fifoAddress) == FALSE

rxFifoIsUnconfigured(fifoAddress) == fifoAddress = NULL

\* (uint8_t)GET_FIELD_VALUE(MCAN_RXF0S_F0GI, rxfs)
rxFifoGetIndex_putIndex(rxfs) == rxfs.PI % 256

rxFifoGetIndex(rxfs) == rxfs.GI % 256

\* [m, ram, ret]; ret.out holds *element.
Mcan_rxFifoPull(m, r, id) ==
    LET rxfs == CASE id = 0 -> m.reg.rxf0s
                  [] id = 1 -> m.reg.rxf1s
                  [] OTHER -> [FL |-> 0, GI |-> 0, PI |-> 0]
        fifoAddress == CASE id = 0 -> m.rxFifo0.address
                         [] id = 1 -> m.rxFifo1.address
                         [] OTHER -> NULL
        elementSize == CASE id = 0 -> m.rxFifo0.elementSize
                         [] id = 1 -> m.rxFifo1.elementSize
                         [] OTHER -> 0
        count == rxfs.FL % 256
        getIndex == rxFifoGetIndex(rxfs)
        baseAddress == fifoAddress + 4 * ((elementSize * getIndex) \div 4)
    IN IF rxFifoIsUnconfigured(fifoAddress)
       THEN [m |-> m, ram |-> r,
             ret |-> Return("Mcan_rxFifoPull", "InvalidRxFifoId", <<>>)]
       ELSE IF rxFifoIsEmpty(count)
       THEN [m |-> m, ram |-> r,
             ret |-> Return("Mcan_rxFifoPull", "RxFifoEmpty", <<>>)]
       ELSE [m |-> IF id = 0
                   THEN [m EXCEPT !.reg.rxf0a = getIndex,
                                  !.reg.rxf0s = WriteRxfa(@, m.reg.rxf0c.S,
                                                          getIndex)]
                   ELSE [m EXCEPT !.reg.rxf1a = getIndex,
                                  !.reg.rxf1s = WriteRxfa(@, m.reg.rxf1c.S,
                                                          getIndex)],
             ram |-> r,
             ret |-> Return("Mcan_rxFifoPull", "none",
                            getRxElement(r, baseAddress))]

\* &mcan->rxBufferAddress[(mcan->rxBufferElementSize * index) / 4]
rxBufferPointer(m, index) ==
    m.rxBufferAddress + 4 * ((m.rxBufferElementSize * index) \div 4)

\* *element of the dedicated Rx buffer at index.
Mcan_rxBufferGet(m, r, index) == getRxElement(r, rxBufferPointer(m, index))

(***************************************************************************)
(* Tx events.                                                              *)
(***************************************************************************)
MCAN_TXEVENTELEMENT_SIZE == 8

\* An event as the controller stores it: dlc is the 4-bit code.
TxEvent(idType, id, eventType, dlc, isCanFdFormatEnabled) ==
    [esiFlag |-> 0, idType |-> idType, frameType |-> 0, id |-> id,
     marker |-> id % 256, eventType |-> eventType,
     isCanFdFormatEnabled |-> isCanFdFormatEnabled,
     isBitRateSwitchingEnabled |-> isCanFdFormatEnabled,
     dlc |-> dlc, timestamp |-> 512 + dlc]

\* The two words of a Tx event element: ESI, XTD, RTR and the identifier in
\* the first; MM, ET, FDF, BRS, DLC and TXTS in the second.
TxEventWords(event) ==
    LET id == IdField(event.idType, event.id)
    IN WordBytes(id % 16777216,
                 (id \div 16777216) + 32 * event.frameType
                 + 64 * event.idType + 128 * event.esiFlag)
       \o WordBytes((event.timestamp % 65536)
                    + 65536 * event.dlc
                    + 1048576 * Bit(event.isBitRateSwitchingEnabled)
                    + 2097152 * Bit(event.isCanFdFormatEnabled)
                    + 4194304 * event.eventType,
                    event.marker % 256)

\* The element Mcan_txEventFifoPull reads at baseAddr.
getTxEventElement(r, baseAddr) ==
    LET w0 == ReadBytes(r, baseAddr, 4)
        w1 == ReadBytes(r, baseAddr + 4, 4)
        idBits == (w0[4] % 32) * 16777216 + w0[3] * 65536 + w0[2] * 256
                  + w0[1]
        idType == (w0[4] \div 64) % 2
        isCanFdFormatEnabled == (w1[3] \div 32) % 2 = 1
    IN [esiFlag |-> w0[4] \div 128,
        idType |-> idType,
        frameType |-> (w0[4] \div 32) % 2,
        id |-> IF idType = 0 THEN idBits \div 262144 ELSE idBits,
        marker |-> w1[4],
        eventType |-> w1[3] \div 64,
        isCanFdFormatEnabled |-> isCanFdFormatEnabled,
        isBitRateSwitchingEnabled |-> ((w1[3] \div 16) % 2 = 1),
        timestamp |-> w1[2] * 256 + w1[1],
        dataSize |-> decodeDataLengthCode(w1[3] % 16, isCanFdFormatEnabled)]

\* count == 0u
txEventFifoIsEmpty_never(count) == FALSE

txEventFifoIsEmpty(count) == count = 0

\* (uint8_t)GET_FIELD_VALUE(MCAN_TXEFS_EFGI, mcan->reg.base->txefs)
txEventFifoGetIndex(txefs) == txefs.GI % 256

(***************************************************************************)
(* Filter elements.                                                        *)
(***************************************************************************)
MCAN_STDRXFILTERELEMENT_SIZE == 4
MCAN_EXTRXFILTERELEMENT_SIZE == 8

\* The word of a standard filter element: SFT in bits 31..30, SFEC in
\* 29..27, SFID1 in 26..16 and SFID2 in 10..0.
StdFilterWord(element) ==
    WordBytes((element.id1 % 256) * 65536 + (element.id2 % 2048),
              64 * (element.type % 4) + 8 * (element.config % 8)
              + ((element.id1 % 2048) \div 256))

\* The words of an extended filter element: EFEC in bits 31..29 and EFID1
\* in 28..0 of the first, EFT in 31..30 and EFID2 in 28..0 of the second.
ExtFilterConfigWord(element) ==
    WordBytes(element.id1 % 16777216,
              32 * (element.config % 8)
              + ((element.id1 % 536870912) \div 16777216))

ExtFilterTypeWord(element) ==
    WordBytes(element.id2 % 16777216,
              64 * (element.type % 4)
              + ((element.id2 % 536870912) \div 16777216))

\* index >= mcan->rxStdFilterSize, index >= mcan->rxExtFilterSize
filterIndexOutOfRange_exclusive(size, index) == index > size

filterIndexOutOfRange(size, index) == index >= size

\* [m, ram, ret]
Mcan_setStandardIdFilter(m, r, element, index) ==
    LET bufferPointer ==
            m.rxStdFilterAddress
            + 4 * ((MCAN_STDRXFILTERELEMENT_SIZE * index) \div 4)
    IN IF filterIndexOutOfRange(m.rxStdFilterSize, index)
       THEN [m |-> m, ram |-> r,
             ret |-> Return("Mcan_setStandardIdFilter", "IndexOutOfRange",
                            <<>>)]
       ELSE [m |-> m,
             ram |-> WriteBytes(r, bufferPointer, StdFilterWord(element)),
             ret |-> Return("Mcan_setStandardIdFilter", "none", <<>>)]

\* [m, ram, ret]
Mcan_setExtendedIdFilter(m, r, element, index) ==
    LET bufferPointer ==
            m.rxExtFilterAddress
            + 4 * ((MCAN_EXTRXFILTERELEMENT_SIZE * index) \div 4)
        zeroed == Memset(r, bufferPointer, MCAN_EXTRXFILTERELEMENT_SIZE)
        typed == OrBytes(zeroed, bufferPointer + 4,
                         ExtFilterTypeWord([element EXCEPT !.id2 = 0]))
        configured == OrBytes(typed, bufferPointer,
                              ExtFilterConfigWord(
                                  [element EXCEPT !.id1 = 0]))
        first == OrBytes(configured, bufferPointer,
                         ExtFilterConfigWord([element EXCEPT !.config = 0]))
        second == OrBytes(first, bufferPointer + 4,
                          ExtFilterTypeWord([element EXCEPT !.type = 0]))
    IN IF filterIndexOutOfRange(m.rxExtFilterSize, index)
       THEN [m |-> m, ram |-> r,
             ret |-> Return("Mcan_setExtendedIdFilter", "IndexOutOfRange",
                            <<>>)]
       ELSE [m |-> m, ram |-> second,
             ret |-> Return("Mcan_setExtendedIdFilter", "none", <<>>)]

(***************************************************************************)
(* A configured device: Mcan_init and one call of Mcan_setConfig that the  *)
(* controller acknowledged, then the controller starting operation with    *)
(* empty FIFOs.                                                            *)
(***************************************************************************)
Configured(config) ==
    LET requested == WriteCccr(setMsgRamBaseAddress(Mcan_init, config),
                               {"INIT"})
        granted == [requested EXCEPT !.reg.cccr = @ \cup {"INIT"}]
        mode == setMode(EnableConfiguration(granted), config).m
        filters == setExtendedIdFiltering(
                       setStandardIdFiltering(SetTiming(mode, config),
                                              config), config)
        rx == setRxBuffer(setRxFifo1(setRxFifo0(filters, config), config),
                          config)
        tx == setTxEventFifo(setTxBuffer(rx, config, FALSE).m, config)
    IN EndConfiguration(tx, config)

StartOfOperation(m) ==
    [m EXCEPT !.reg.txfqs = [TFFL |-> m.reg.txbc.TFQS,
                             TFGI |-> m.reg.txbc.NDTB,
                             TFQPI |-> m.reg.txbc.NDTB,
                             TFQF |-> FALSE]]

DataConfig(rxFifo0, rxFifo1, txBuffer, txEventFifo) ==
    [UnreadConfig EXCEPT !.msgRamBaseAddress = MsgRamBase,
                         !.standardIdFilter = FilterList(StdFilterArea),
                         !.rxFifo0 = rxFifo0,
                         !.rxFifo1 = rxFifo1,
                         !.txBuffer = txBuffer,
                         !.txEventFifo = txEventFifo]

(***************************************************************************)
(* The transmit path on a configured device.                               *)
(***************************************************************************)
TxElement(idType, id, dataSize, isInterruptEnabled) ==
    [esiFlag |-> 0, idType |-> idType, frameType |-> 0, id |-> id,
     marker |-> id % 256, isTxEventStored |-> FALSE,
     isCanFdFormatEnabled |-> (idType = 1),
     isBitRateSwitchingEnabled |-> FALSE,
     dataSize |-> dataSize,
     data |-> [i \in 1 .. dataSize |-> (id + i) % 256],
     isInterruptEnabled |-> isInterruptEnabled]

\* A standard frame, an extended CAN FD frame, and an element whose data
\* size has no data length code.
TxElements ==
    {TxElement(0, 291, 2, TRUE), TxElement(1, 74565, 8, FALSE),
     TxElement(0, 291, 9, TRUE)}

\* One dedicated buffer followed by a queue of RegionSize elements, and a
\* device without a Tx section.
TxConfigs ==
    {DataConfig(RxFifoDisabled(RxFifo0Area), RxFifoDisabled(RxFifo1Area),
                TxBufferEnabled(1, RegionSize, Mcan_ElementSize_8),
                TxEventFifo(FALSE)),
     DataConfig(RxFifoDisabled(RxFifo0Area), RxFifoDisabled(RxFifo1Area),
                TxBufferDisabled, TxEventFifo(FALSE))}

InitTx ==
    /\ \E config \in TxConfigs :
          /\ cfg = config
          /\ mcan = StartOfOperation(Configured(config))
    /\ ram = EmptyRam
    /\ pc = "idle"
    /\ counter = 0
    /\ cccrReads = 0
    /\ ret = Return("Mcan_setConfig", "none", <<>>)
    /\ changed = {}
    /\ ndebug = FALSE
    /\ scenario = "regions"
    /\ calls = NoCalls
    /\ pending = NothingPending
    /\ structFifo = NoFifo
    /\ contents = <<>>

Mcan_txBufferAdd_call ==
    /\ pc = "idle"
    /\ \E element \in TxElements, index \in 0 .. (mcan.tx.bufferSize + 1) :
          LET r == Mcan_txBufferAdd(mcan, ram, element, index)
          IN mcan' = r.m /\ ram' = r.ram /\ ret' = r.ret
    /\ UNCHANGED <<pc, cfg, counter, cccrReads, changed, ndebug, scenario, calls,
                   pending, structFifo, contents>>

\* The callers push to a Tx queue that is configured.
Mcan_txQueuePush_call ==
    /\ pc = "idle"
    /\ mcan.tx.queueSize > 0
    /\ \E element \in TxElements :
          LET r == Mcan_txQueuePush(mcan, ram, element)
          IN mcan' = r.m /\ ram' = r.ram /\ ret' = r.ret
    /\ UNCHANGED <<pc, cfg, counter, cccrReads, changed, ndebug, scenario, calls,
                   pending, structFifo, contents>>

Mcan_txBufferIsTransmissionFinished_call ==
    /\ pc = "idle"
    /\ \E index \in 0 .. (mcan.tx.bufferSize + mcan.tx.queueSize - 1) :
          ret' = [Return("Mcan_txBufferIsTransmissionFinished", "none",
                         <<index>>)
                     EXCEPT !.ok = Mcan_txBufferIsTransmissionFinished(
                                       mcan, index)]
    /\ UNCHANGED <<mcan, ram, pc, cfg, counter, cccrReads, changed, ndebug,
                   scenario, calls,
                   pending, structFifo, contents>>

\* The controller sends a pending dedicated buffer, or the element at the
\* get index of the Tx FIFO.
HwTransmit ==
    /\ \E index \in mcan.reg.txbrp :
          LET q == mcan.reg.txfqs
              first == mcan.reg.txbc.NDTB
              size == mcan.reg.txbc.TFQS
              queued == index >= first /\ index = q.TFGI /\ q.TFFL < size
          IN /\ index < first \/ queued \/ q.TFFL = size
             /\ mcan' = [mcan EXCEPT
                   !.reg.txbrp = @ \ {index},
                   !.reg.txbto = @ \cup {index},
                   !.reg.txfqs =
                       IF queued
                       THEN [TFFL |-> q.TFFL + 1,
                             TFGI |-> first + ((q.TFGI - first + 1) % size),
                             TFQPI |-> q.TFQPI,
                             TFQF |-> FALSE]
                       ELSE q]
    /\ UNCHANGED <<ram, pc, cfg, counter, cccrReads, ret, changed, ndebug,
                   scenario, calls, pending, structFifo, contents>>

NextTx ==
    \/ Mcan_txBufferAdd_call
    \/ Mcan_txQueuePush_call
    \/ Mcan_txBufferIsTransmissionFinished_call
    \/ HwTransmit

SpecTx == InitTx /\ [][NextTx]_vars

(***************************************************************************)
(* Mcan_txQueuePush statement by statement, called from two execution      *)
(* contexts.  In the "serialized" scenario the callers hold an external    *)
(* lock for the length of a call; in the "interleaved" one they do not.    *)
(***************************************************************************)
PushScenarios == {"serialized", "interleaved"}

PushConfig ==
    DataConfig(RxFifoDisabled(RxFifo0Area), RxFifoDisabled(RxFifo1Area),
               TxBufferEnabled(1, RegionSize, Mcan_ElementSize_8),
               TxEventFifo(FALSE))

InitPush ==
    /\ cfg = PushConfig
    /\ mcan = StartOfOperation(Configured(PushConfig))
    /\ ram = EmptyRam
    /\ pc = "idle"
    /\ counter = 0
    /\ cccrReads = 0
    /\ ret = Return("Mcan_setConfig", "none", <<>>)
    /\ changed = {}
    /\ ndebug = FALSE
    /\ scenario \in PushScenarios
    /\ calls = NoCalls
    /\ pending = NothingPending
    /\ structFifo = NoFifo
    /\ contents = <<>>

\* Lines 903-907: TXFQS is read once; a full queue ends the call, otherwise
\* *index is the put index that was read.
Mcan_txQueuePush_read(c) ==
    /\ calls[c] = NoCall
    /\ scenario = "serialized" => calls = NoCalls
    /\ \E element \in TxElements :
          LET txfqs == mcan.reg.txfqs
          IN IF txQueueIsFull(txfqs)
             THEN /\ ret' = Return("Mcan_txQueuePush", "TxFifoFull", <<>>)
                  /\ UNCHANGED calls
             ELSE /\ calls' = [calls EXCEPT ![c] =
                                  [op |-> "Mcan_txQueuePush",
                                   pc |-> "txAddElement",
                                   element |-> element,
                                   index |-> txQueuePutIndex(txfqs)]]
                  /\ UNCHANGED ret
    /\ UNCHANGED <<mcan, ram, pc, cfg, counter, cccrReads, changed, ndebug,
                   scenario, pending, structFifo, contents>>

\* Lines 908-915: the element is written to the slot of *index.
Mcan_txQueuePush_txAddElement(c) ==
    /\ calls[c] # NoCall
    /\ calls[c].pc = "txAddElement"
    /\ LET index == calls[c].index
           added == txAddElement(mcan, ram, calls[c].element,
                                 txElementAddress(mcan, index), index)
       IN IF added.ok
          THEN /\ mcan' = added.m
               /\ ram' = added.ram
               /\ calls' = [calls EXCEPT ![c].pc = "txbar"]
               /\ UNCHANGED ret
          ELSE /\ ret' = Return("Mcan_txQueuePush", "ElementSizeInvalid",
                                <<index>>)
               /\ calls' = [calls EXCEPT ![c] = NoCall]
               /\ UNCHANGED <<mcan, ram>>
    /\ UNCHANGED <<pc, cfg, counter, cccrReads, changed, ndebug, scenario,
                   pending, structFifo, contents>>

\* Lines 917-919: the add request for *index.
Mcan_txQueuePush_txbar(c) ==
    /\ calls[c] # NoCall
    /\ calls[c].pc = "txbar"
    /\ mcan' = WriteTxbar(mcan, calls[c].index)
    /\ ret' = Return("Mcan_txQueuePush", "none", <<calls[c].index>>)
    /\ calls' = [calls EXCEPT ![c] = NoCall]
    /\ UNCHANGED <<ram, pc, cfg, counter, cccrReads, changed, ndebug,
                   scenario, pending, structFifo, contents>>

NextPush ==
    \/ \E c \in Contexts : Mcan_txQueuePush_read(c)
    \/ \E c \in Contexts : Mcan_txQueuePush_txAddElement(c)
    \/ \E c \in Contexts : Mcan_txQueuePush_txbar(c)
    \/ HwTransmit

SpecPush == InitPush /\ [][NextPush]_vars

(***************************************************************************)
(* The receive path on a configured device.                                *)
(***************************************************************************)
\* A standard classic frame of 2 bytes and an extended CAN FD frame of 8.
RxFrames == {RxFrame(0, 291, 2, FALSE), RxFrame(1, 74565, 8, TRUE)}

Mcan_RxFifoIds == {0, 1}

RxConfigs ==
    {DataConfig(RxFifoEnabled(RxFifo0Area, Mcan_ElementSize_8),
                RxFifoDisabled(RxFifo1Area), TxBufferDisabled,
                TxEventFifo(FALSE)),
     DataConfig(RxFifoDisabled(RxFifo0Area),
                RxFifoEnabled(RxFifo1Area, Mcan_ElementSize_8),
                TxBufferDisabled, TxEventFifo(FALSE)),
     DataConfig(RxFifoEnabled(RxFifo0Area, Mcan_ElementSize_8),
                [RxFifoEnabled(RxFifo1Area, Mcan_ElementSize_8)
                     EXCEPT !.size = 1],
                TxBufferDisabled, TxEventFifo(FALSE))}

InitRx ==
    /\ \E config \in RxConfigs :
          /\ cfg = config
          /\ mcan = StartOfOperation(Configured(config))
    /\ ram = EmptyRam
    /\ pc = "idle"
    /\ counter = 0
    /\ cccrReads = 0
    /\ ret = Return("Mcan_setConfig", "none", <<>>)
    /\ changed = {}
    /\ ndebug = FALSE
    /\ scenario = "regions"
    /\ calls = NoCalls
    /\ pending = NothingPending
    /\ structFifo = NoFifo
    /\ contents = <<>>

\* The elements at the head of an Rx FIFO that an acknowledge released.
Released(waiting, before, after) ==
    SubSeq(waiting, 1 + before.FL - after.FL, Len(waiting))

Mcan_rxFifoPull_call(id) ==
    /\ pc = "idle"
    /\ LET r == Mcan_rxFifoPull(mcan, ram, id)
       IN /\ mcan' = r.m
          /\ ram' = r.ram
          /\ ret' = r.ret
          /\ pending' =
                 [pending EXCEPT
                     !.rxFifo0 = Released(@, mcan.reg.rxf0s, r.m.reg.rxf0s),
                     !.rxFifo1 = Released(@, mcan.reg.rxf1s, r.m.reg.rxf1s)]
    /\ UNCHANGED <<pc, cfg, counter, cccrReads, changed, ndebug, scenario,
                   calls, structFifo, contents>>

\* Mcan_init on the descriptor of a running device: the descriptor is
\* zeroed, the controller is not touched.
Mcan_init_call ==
    /\ pc = "idle"
    /\ mcan.msgRamBaseAddress # NULL
    /\ mcan' = [Mcan_init EXCEPT !.reg = mcan.reg]
    /\ ret' = Return("Mcan_init", "none", <<>>)
    /\ UNCHANGED <<ram, pc, cfg, counter, cccrReads, changed, ndebug,
                   scenario, calls, pending, structFifo, contents>>

\* The controller stores a frame in an Rx FIFO that is configured and not
\* full: the header and as much of the data as the data field of the
\* element holds.
StoreFrame(r, address, dataField, frame) ==
    WriteBytes(WriteBytes(r, address, RxHeader(frame)),
               address + 4 * MCAN_RXELEMENT_DATA_WORD,
               SubSeq(frame.data, 1,
                      IF Len(frame.data) < dataField
                      THEN Len(frame.data) ELSE dataField))

HwReceiveOf(frames) ==
    /\ "INIT" \notin mcan.reg.cccr
    /\ \E id \in {0, 1}, frame \in frames :
          LET config == IF id = 0 THEN mcan.reg.rxf0c ELSE mcan.reg.rxf1c
              status == IF id = 0 THEN mcan.reg.rxf0s ELSE mcan.reg.rxf1s
              dataField == decodeElementSizeInBytes(
                               IF id = 0 THEN mcan.reg.rxesc.F0DS
                               ELSE mcan.reg.rxesc.F1DS)
              address == mcan.reg.canDmaBase * 65536 + config.SA
                         + status.PI * (dataField
                                        + 4 * MCAN_RXELEMENT_DATA_WORD)
              stored == [FL |-> status.FL + 1, GI |-> status.GI,
                         PI |-> (status.PI + 1) % config.S]
          IN /\ config.S > 0
             /\ status.FL < config.S
             /\ ram' = StoreFrame(ram, address, dataField, frame)
             /\ mcan' = IF id = 0 THEN [mcan EXCEPT !.reg.rxf0s = stored]
                        ELSE [mcan EXCEPT !.reg.rxf1s = stored]
             /\ pending' = IF id = 0
                           THEN [pending EXCEPT !.rxFifo0 = Append(@, frame)]
                           ELSE [pending EXCEPT !.rxFifo1 = Append(@, frame)]
    /\ UNCHANGED <<pc, cfg, counter, cccrReads, ret, changed, ndebug,
                   scenario, calls, structFifo, contents>>

HwReceive == HwReceiveOf(RxFrames)

NextRx ==
    \/ \E id \in Mcan_RxFifoIds : Mcan_rxFifoPull_call(id)
    \/ Mcan_init_call
    \/ HwReceive

SpecRx == InitRx /\ [][NextRx]_vars

(***************************************************************************)
(* The receive path with frames longer than the data field of the          *)
(* elements, and with dedicated Rx buffers.                                *)
(***************************************************************************)
\* A standard classic frame of 2 bytes and an extended CAN FD frame of 64
\* bytes, DLC 15.
RxLongFrames == {RxFrame(0, 291, 2, FALSE), RxFrame(1, 74565, 15, TRUE)}

\* The dedicated Rx buffer that the filters of the model address.
RxBufferIndices == {0}

HwReceiveLong == HwReceiveOf(RxLongFrames)

\* The controller stores a frame that a filter element directs to a
\* dedicated Rx buffer.
HwReceiveToBuffer ==
    /\ "INIT" \notin mcan.reg.cccr
    /\ mcan.rxBufferAddress # NULL
    /\ \E index \in RxBufferIndices, frame \in RxLongFrames :
          LET dataField == decodeElementSizeInBytes(mcan.reg.rxesc.RBDS)
              address == mcan.reg.canDmaBase * 65536 + mcan.reg.rxbc
                         + index * (dataField
                                    + 4 * MCAN_RXELEMENT_DATA_WORD)
          IN ram' = StoreFrame(ram, address, dataField, frame)
    /\ UNCHANGED <<mcan, pc, cfg, counter, cccrReads, ret, changed, ndebug,
                   scenario, calls, pending, structFifo, contents>>

Mcan_rxBufferGet_call ==
    /\ pc = "idle"
    /\ mcan.rxBufferAddress # NULL
    /\ \E index \in RxBufferIndices :
          ret' = Return("Mcan_rxBufferGet", "none",
                        Mcan_rxBufferGet(mcan, ram, index))
    /\ UNCHANGED <<mcan, ram, pc, cfg, counter, cccrReads, changed, ndebug,
                   scenario, calls, pending, structFifo, contents>>

NextRxLong ==
    \/ \E id \in Mcan_RxFifoIds : Mcan_rxFifoPull_call(id)
    \/ Mcan_rxBufferGet_call
    \/ HwReceiveLong
    \/ HwReceiveToBuffer

SpecRxLong == InitRx /\ [][NextRxLong]_vars

(***************************************************************************)
(* The Tx event FIFO of a configured device.  Mcan_txEventFifoPull runs in  *)
(* two steps, the reading of the element and the acknowledge, and the      *)
(* controller may store events in between.                                 *)
(***************************************************************************)
\* A sent classic frame of 2 bytes and a cancelled CAN FD frame of 64.
TxEvents == {TxEvent(0, 291, 1, 2, FALSE), TxEvent(1, 74565, 2, 15, TRUE)}

EventConfigs ==
    {DataConfig(RxFifoDisabled(RxFifo0Area), RxFifoDisabled(RxFifo1Area),
                TxBufferDisabled, TxEventFifo(TRUE)),
     DataConfig(RxFifoDisabled(RxFifo0Area), RxFifoDisabled(RxFifo1Area),
                TxBufferDisabled, TxEventFifo(FALSE))}

InitEvent ==
    /\ \E config \in EventConfigs :
          /\ cfg = config
          /\ mcan = StartOfOperation(Configured(config))
    /\ ram = EmptyRam
    /\ pc = "idle"
    /\ counter = 0
    /\ cccrReads = 0
    /\ ret = Return("Mcan_setConfig", "none", <<>>)
    /\ changed = {}
    /\ ndebug = FALSE
    /\ scenario = "regions"
    /\ calls = NoCalls
    /\ pending = NothingPending
    /\ structFifo = NoFifo
    /\ contents = <<>>

\* Lines 931-970: the fill level, the get index and the element.
Mcan_txEventFifoPull_read ==
    /\ calls[1] = NoCall
    /\ LET count == mcan.reg.txefs.FL
           getIndex == txEventFifoGetIndex(mcan.reg.txefs)
           baseAddr == mcan.txEventFifoAddress
                       + 4 * ((MCAN_TXEVENTELEMENT_SIZE * getIndex) \div 4)
       IN IF txEventFifoIsEmpty(count)
          THEN /\ ret' = Return("Mcan_txEventFifoPull", "TxEventFifoEmpty",
                                <<>>)
               /\ UNCHANGED calls
          ELSE /\ calls' = [calls EXCEPT ![1] =
                               [op |-> "Mcan_txEventFifoPull",
                                pc |-> "txefa",
                                getIndex |-> getIndex,
                                element |-> getTxEventElement(ram, baseAddr)]]
               /\ UNCHANGED ret
    /\ UNCHANGED <<mcan, ram, pc, cfg, counter, cccrReads, changed, ndebug,
                   scenario, pending, structFifo, contents>>

\* Lines 972-975: the acknowledge of the get index that was read.
Mcan_txEventFifoPull_txefa ==
    /\ calls[1] # NoCall
    /\ calls[1].op = "Mcan_txEventFifoPull"
    /\ LET acknowledged == WriteRxfa(mcan.reg.txefs, mcan.reg.txefc.EFS,
                                     calls[1].getIndex)
       IN /\ mcan' = [mcan EXCEPT
                         !.reg.txefa = BIT_FIELD_VALUE(5, calls[1].getIndex),
                         !.reg.txefs = acknowledged]
          /\ pending' = [pending EXCEPT
                            !.txEventFifo = Released(@, mcan.reg.txefs,
                                                     acknowledged)]
    /\ ret' = Return("Mcan_txEventFifoPull", "none", calls[1].element)
    /\ calls' = [calls EXCEPT ![1] = NoCall]
    /\ UNCHANGED <<ram, pc, cfg, counter, cccrReads, changed, ndebug,
                   scenario, structFifo, contents>>

\* The controller stores the event of a transmission in a Tx event FIFO
\* that is configured and not full.
HwStoreTxEvent ==
    /\ "INIT" \notin mcan.reg.cccr
    /\ \E event \in TxEvents :
          LET config == mcan.reg.txefc
              status == mcan.reg.txefs
              address == mcan.reg.canDmaBase * 65536 + config.EFSA
                         + status.PI * MCAN_TXEVENTELEMENT_SIZE
          IN /\ config.EFS > 0
             /\ status.FL < config.EFS
             /\ ram' = WriteBytes(ram, address, TxEventWords(event))
             /\ mcan' = [mcan EXCEPT !.reg.txefs =
                            [FL |-> status.FL + 1, GI |-> status.GI,
                             PI |-> (status.PI + 1) % config.EFS]]
             /\ pending' = [pending EXCEPT
                               !.txEventFifo = Append(@, event)]
    /\ UNCHANGED <<pc, cfg, counter, cccrReads, ret, changed, ndebug,
                   scenario, calls, structFifo, contents>>

NextEvent ==
    \/ Mcan_txEventFifoPull_read
    \/ Mcan_txEventFifoPull_txefa
    \/ HwStoreTxEvent

SpecEvent == InitEvent /\ [][NextEvent]_vars

(***************************************************************************)
(* The filter lists of a configured device.                                *)
(***************************************************************************)
RxFilterElement(type, config, id1, id2) ==
    [type |-> type, config |-> config, id1 |-> id1, id2 |-> id2]

\* A range filter into Rx FIFO 0 and a mask filter that rejects.
RxFilterElements ==
    {RxFilterElement(0, 1, 291, 1110), RxFilterElement(2, 3, 74565, 536870911)}

FilterConfigs ==
    {[DataConfig(RxFifoEnabled(RxFifo0Area, Mcan_ElementSize_8),
                 RxFifoDisabled(RxFifo1Area), TxBufferDisabled,
                 TxEventFifo(FALSE))
         EXCEPT !.standardIdFilter = std, !.extendedIdFilter = ext] :
        std \in {FilterList(StdFilterArea), RejectAll(StdFilterArea)},
        ext \in {FilterList(ExtFilterArea), RejectAll(ExtFilterArea)}}

InitFilter ==
    /\ \E config \in FilterConfigs :
          /\ cfg = config
          /\ mcan = StartOfOperation(Configured(config))
    /\ ram = EmptyRam
    /\ pc = "idle"
    /\ counter = 0
    /\ cccrReads = 0
    /\ ret = Return("Mcan_setConfig", "none", <<>>)
    /\ changed = {}
    /\ ndebug = FALSE
    /\ scenario = "filters"
    /\ calls = NoCalls
    /\ pending = NothingPending
    /\ structFifo = NoFifo
    /\ contents = <<>>

Mcan_setStandardIdFilter_call ==
    /\ pc = "idle"
    /\ \E element \in RxFilterElements, index \in 0 .. RegionSize + 1 :
          LET r == Mcan_setStandardIdFilter(mcan, ram, element, index)
          IN mcan' = r.m /\ ram' = r.ram /\ ret' = r.ret
    /\ UNCHANGED <<pc, cfg, counter, cccrReads, changed, ndebug, scenario,
                   calls, pending, structFifo, contents>>

Mcan_setExtendedIdFilter_call ==
    /\ pc = "idle"
    /\ \E element \in RxFilterElements, index \in 0 .. RegionSize + 1 :
          LET r == Mcan_setExtendedIdFilter(mcan, ram, element, index)
          IN mcan' = r.m /\ ram' = r.ram /\ ret' = r.ret
    /\ UNCHANGED <<pc, cfg, counter, cccrReads, changed, ndebug, scenario,
                   calls, pending, structFifo, contents>>

NextFilter ==
    \/ Mcan_setStandardIdFilter_call
    \/ Mcan_setExtendedIdFilter_call

SpecFilter == InitFilter /\ [][NextFilter]_vars

(***************************************************************************)
(* Mcan_getInterruptStatus statement by statement, called from two         *)
(* execution contexts while the controller raises flags.  IR is the set of *)
(* the bit positions that are set.                                         *)
(***************************************************************************)
\* status->has...Occurred = (flags & MCAN_IR_..._MASK) != 0u
Mcan_InterruptStatus(flags) ==
    [hasRf0nOccurred |-> 0 \in flags,
     hasRf0wOccurred |-> 1 \in flags,
     hasRf0fOccurred |-> 2 \in flags,
     hasRf0lOccurred |-> 3 \in flags,
     hasRf1nOccurred |-> 4 \in flags,
     hasRf1wOccurred |-> 5 \in flags,
     hasRf1fOccurred |-> 6 \in flags,
     hasRf1lOccurred |-> 7 \in flags,
     hasHpmOccurred |-> 8 \in flags,
     hasTcOccurred |-> 9 \in flags,
     hasTcfOccurred |-> 10 \in flags,
     hasTfeOccurred |-> 11 \in flags,
     hasTefnOccurred |-> 12 \in flags,
     hasTefwOccurred |-> 13 \in flags,
     hasTeffOccurred |-> 14 \in flags,
     hasTeflOccurred |-> 15 \in flags,
     hasTswOccurred |-> 16 \in flags,
     hasMrafOccurred |-> 17 \in flags,
     hasTooOccurred |-> 18 \in flags,
     hasDrxOccurred |-> 19 \in flags,
     hasEloOccurred |-> 22 \in flags,
     hasEpOccurred |-> 23 \in flags,
     hasEwOccurred |-> 24 \in flags,
     hasBoOccurred |-> 25 \in flags,
     hasWdiOccurred |-> 26 \in flags,
     hasPeaOccurred |-> 27 \in flags,
     hasPedOccurred |-> 28 \in flags,
     hasAraOccurred |-> 29 \in flags]

\* mcan->reg.base->ir = flags
irWriteBack_all(flags) == 0 .. 29

irWriteBack(flags) == flags

\* The controller clears the flags whose bit is written as 1.
WriteIr(m, value) == [m EXCEPT !.reg.ir = @ \ value]

\* Rf0n, Tc and Bo.
RaisedInterrupts == {0, 9, 25}

InitInterrupt ==
    /\ cfg = PushConfig
    /\ mcan = StartOfOperation(Configured(PushConfig))
    /\ ram = EmptyRam
    /\ pc = "idle"
    /\ counter = 0
    /\ cccrReads = 0
    /\ ret = Return("Mcan_setConfig", "none", <<>>)
    /\ changed = {}
    /\ ndebug = FALSE
    /\ scenario = "interleaved"
    /\ calls = NoCalls
    /\ pending = NothingPending
    /\ structFifo = NoFifo
    /\ contents = <<>>

\* Line 1165: the one read of IR.
Mcan_getInterruptStatus_read(c) ==
    /\ calls[c] = NoCall
    /\ calls' = [calls EXCEPT ![c] = [op |-> "Mcan_getInterruptStatus",
                                      pc |-> "ir",
                                      flags |-> mcan.reg.ir]]
    /\ UNCHANGED <<mcan, ram, pc, cfg, counter, cccrReads, ret, changed,
                   ndebug, scenario, pending, structFifo, contents>>

\* Lines 1166-1195: the write of IR and the status built from the value
\* that was read.
Mcan_getInterruptStatus_write(c) ==
    /\ calls[c] # NoCall
    /\ calls[c].op = "Mcan_getInterruptStatus"
    /\ mcan' = WriteIr(mcan, irWriteBack(calls[c].flags))
    /\ ret' = Return("Mcan_getInterruptStatus", "none",
                     Mcan_InterruptStatus(calls[c].flags))
    /\ pending' = [pending EXCEPT !.ir = @ \ calls[c].flags]
    /\ calls' = [calls EXCEPT ![c] = NoCall]
    /\ UNCHANGED <<ram, pc, cfg, counter, cccrReads, changed, ndebug,
                   scenario, structFifo, contents>>

\* The controller raises a flag.
HwRaiseInterrupt ==
    /\ \E flag \in RaisedInterrupts :
          /\ mcan' = [mcan EXCEPT !.reg.ir = @ \cup {flag}]
          /\ pending' = [pending EXCEPT !.ir = @ \cup {flag}]
    /\ UNCHANGED <<ram, pc, cfg, counter, cccrReads, ret, changed, ndebug,
                   scenario, calls, structFifo, contents>>

NextInterrupt ==
    \/ \E c \in Contexts : Mcan_getInterruptStatus_read(c)
    \/ \E c \in Contexts : Mcan_getInterruptStatus_write(c)
    \/ HwRaiseInterrupt

SpecInterrupt == InitInterrupt /\ [][NextInterrupt]_vars

(***************************************************************************)
(* The codecs, applied to every input of their type.                       *)
(***************************************************************************)
InitCodec ==
    /\ mcan = Mcan_init
    /\ ram = EmptyRam
    /\ pc = "idle"
    /\ cfg = UnreadConfig
    /\ counter = 0
    /\ cccrReads = 0
    /\ ret = NoReturn
    /\ changed = {}
    /\ ndebug = FALSE
    /\ scenario = "modes"
    /\ calls = NoCalls
    /\ pending = NothingPending
    /\ structFifo = NoFifo
    /\ contents = <<>>

\* ret.out holds the arguments followed by the result.
decodeDataLengthCode_call ==
    /\ \E dlc \in 0 .. 15, isCanFdFrame \in BOOLEAN :
          ret' = Return("decodeDataLengthCode", "none",
                        <<dlc, isCanFdFrame,
                          decodeDataLengthCode(dlc, isCanFdFrame)>>)
    /\ UNCHANGED <<mcan, ram, pc, cfg, counter, cccrReads, changed, ndebug,
                   scenario, calls, pending, structFifo, contents>>

encodeDataLengthCode_call ==
    /\ \E size \in 0 .. 255 :
          ret' = Return("encodeDataLengthCode", "none",
                        <<size, encodeDataLengthCode(size)>>)
    /\ UNCHANGED <<mcan, ram, pc, cfg, counter, cccrReads, changed, ndebug,
                   scenario, calls, pending, structFifo, contents>>

decodeTxElementSizeInBytes_call ==
    /\ \E size \in 0 .. Mcan_ElementSize_Invalid :
          ret' = Return("decodeTxElementSizeInBytes", "none",
                        <<size, decodeTxElementSizeInBytes(size)>>)
    /\ UNCHANGED <<mcan, ram, pc, cfg, counter, cccrReads, changed, ndebug,
                   scenario, calls, pending, structFifo, contents>>

decodeRxElementSizeInBytes_call ==
    /\ \E size \in 0 .. Mcan_ElementSize_Invalid :
          ret' = Return("decodeRxElementSizeInBytes", "none",
                        <<size, decodeRxElementSizeInBytes(size)>>)
    /\ UNCHANGED <<mcan, ram, pc, cfg, counter, cccrReads, changed, ndebug,
                   scenario, calls, pending, structFifo, contents>>

encodeTxElementSizeInBytes_call ==
    /\ \E size \in 0 .. 255 :
          ret' = Return("encodeTxElementSizeInBytes", "none",
                        <<size, encodeTxElementSizeInBytes(size)>>)
    /\ UNCHANGED <<mcan, ram, pc, cfg, counter, cccrReads, changed, ndebug,
                   scenario, calls, pending, structFifo, contents>>

encodeRxElementSizeInBytes_call ==
    /\ \E size \in 0 .. 255 :
          ret' = Return("encodeRxElementSizeInBytes", "none",
                        <<size, encodeRxElementSizeInBytes(size)>>)
    /\ UNCHANGED <<mcan, ram, pc, cfg, counter, cccrReads, changed, ndebug,
                   scenario, calls, pending, structFifo, contents>>

NextCodec ==
    \/ decodeDataLengthCode_call
    \/ encodeDataLengthCode_call
    \/ decodeTxElementSizeInBytes_call
    \/ decodeRxElementSizeInBytes_call
    \/ encodeTxElementSizeInBytes_call
    \/ encodeRxElementSizeInBytes_call

SpecCodec == InitCodec /\ [][NextCodec]_vars

(***************************************************************************)
(* StructFifo: a queue of fixed-size elements in a caller's buffer.        *)
(***************************************************************************)
StructFifo_init(memoryBuffer, elementSize, elementsCount) ==
    [begin |-> memoryBuffer,
     end |-> memoryBuffer + elementSize * elementsCount,
     first |-> NULL,
     last |-> memoryBuffer,
     elementSize |-> elementSize]

StructFifo_clear(f) == [f EXCEPT !.first = NULL, !.last = f.begin]

StructFifo_isFull_never(f) == FALSE

StructFifo_isFull(f) == f.first = f.last

StructFifo_isEmpty(f) == f.first = NULL

\* [fifo, ram, ok]: the queue, the memory and the result after the call.
StructFifo_push(f, r, data) ==
    LET first == IF f.first = NULL THEN f.last ELSE f.first
        last == f.last + f.elementSize
    IN IF StructFifo_isFull(f)
       THEN [fifo |-> f, ram |-> r, ok |-> FALSE]
       ELSE [fifo |-> [f EXCEPT !.first = first,
                                !.last = IF last = f.end THEN f.begin
                                         ELSE last],
             ram |-> WriteBytes(r, f.last, SubSeq(data, 1, f.elementSize)),
             ok |-> TRUE]

StructFifo_pushUnaligned(f, r, data) ==
    LET first == IF f.first = NULL THEN f.last ELSE f.first
        last == f.last + f.elementSize
    IN IF StructFifo_isFull(f)
       THEN [fifo |-> f, ram |-> r, ok |-> FALSE]
       ELSE [fifo |-> [f EXCEPT !.first = first,
                                !.last = IF last = f.end THEN f.begin
                                         ELSE last],
             ram |-> WriteBytes(r, f.last, SubSeq(data, 1, f.elementSize)),
             ok |-> TRUE]

\* [fifo, ok, data]: data is what the call has copied to the caller.
StructFifo_pull(f, r) ==
    LET next == f.first + f.elementSize
        wrapped == IF next = f.end THEN f.begin ELSE next
    IN IF StructFifo_isEmpty(f)
       THEN [fifo |-> f, ok |-> FALSE, data |-> <<>>]
       ELSE [fifo |-> [f EXCEPT !.first = IF wrapped = f.last THEN NULL
                                          ELSE wrapped],
             ok |-> TRUE,
             data |-> ReadBytes(r, f.first, f.elementSize)]

StructFifo_pullUnaligned(f, r) ==
    LET next == f.first + f.elementSize
        wrapped == IF next = f.end THEN f.begin ELSE next
    IN IF StructFifo_isEmpty(f)
       THEN [fifo |-> f, ok |-> FALSE, data |-> <<>>]
       ELSE [fifo |-> [f EXCEPT !.first = IF wrapped = f.last THEN NULL
                                          ELSE wrapped],
             ok |-> TRUE,
             data |-> ReadBytes(r, f.first, f.elementSize)]

\* StructFifo_peek copying from the beginning of the buffer.
StructFifo_peek_atBegin(f, r) ==
    IF StructFifo_isEmpty(f)
    THEN [fifo |-> f, ok |-> FALSE, data |-> <<>>]
    ELSE [fifo |-> f, ok |-> TRUE,
          data |-> ReadBytes(r, f.begin, f.elementSize)]

StructFifo_peek(f, r) ==
    IF StructFifo_isEmpty(f)
    THEN [fifo |-> f, ok |-> FALSE, data |-> <<>>]
    ELSE [fifo |-> f, ok |-> TRUE,
          data |-> ReadBytes(r, f.first, f.elementSize)]

StructFifo_drop(f) ==
    LET next == f.first + f.elementSize
        wrapped == IF next = f.end THEN f.begin ELSE next
    IN IF StructFifo_isEmpty(f)
       THEN [fifo |-> f, ok |-> FALSE]
       ELSE [fifo |-> [f EXCEPT !.first = IF wrapped = f.last THEN NULL
                                          ELSE wrapped],
             ok |-> TRUE]

(***************************************************************************)
(* StructFifo in use.  `contents` holds the elements that pushes have      *)
(* accepted and no pull, drop or clear has removed, oldest first.          *)
(***************************************************************************)
FifoBuffer == 4096

FifoElementSizes == {1, 2}

FifoElements(elementSize) == [1 .. elementSize -> {1, 2}]

\* The bytes of the memory buffer handed to StructFifo_init.
FifoMemory(f) == f.begin .. f.end - 1

InitFifo ==
    /\ mcan = Mcan_init
    /\ ram = EmptyRam
    /\ pc = "idle"
    /\ cfg = UnreadConfig
    /\ counter = 0
    /\ cccrReads = 0
    /\ ret = NoReturn
    /\ changed = {}
    /\ ndebug = FALSE
    /\ scenario = "modes"
    /\ calls = NoCalls
    /\ pending = NothingPending
    /\ \E elementSize \in FifoElementSizes, elementsCount \in 0 .. RegionSize :
          structFifo = StructFifo_init(FifoBuffer, elementSize, elementsCount)
    /\ contents = <<>>

\* A memcpy to an address outside the memory buffer is undefined: nothing
\* is said of the program after it.
StructFifo_push_call ==
    /\ pc = "idle"
    /\ \E data \in FifoElements(structFifo.elementSize) :
          LET done == StructFifo_push(structFifo, ram, data)
          IN /\ structFifo' = done.fifo
             /\ ram' = done.ram
             /\ contents' = IF done.ok THEN Append(contents, data)
                            ELSE contents
             /\ ret' = Return("StructFifo_push",
                              IF done.ok THEN "none" ELSE "false", <<>>)
             /\ pc' = IF done.ok /\ structFifo.last \notin FifoMemory(structFifo)
                      THEN "undefined" ELSE "idle"
    /\ UNCHANGED <<mcan, cfg, counter, cccrReads, changed, ndebug, scenario,
                   calls, pending>>

StructFifo_pushUnaligned_call ==
    /\ pc = "idle"
    /\ \E data \in FifoElements(structFifo.elementSize) :
          LET done == StructFifo_pushUnaligned(structFifo, ram, data)
          IN /\ structFifo' = done.fifo
             /\ ram' = done.ram
             /\ contents' = IF done.ok THEN Append(contents, data)
                            ELSE contents
             /\ ret' = Return("StructFifo_pushUnaligned",
                              IF done.ok THEN "none" ELSE "false", <<>>)
             /\ pc' = IF done.ok /\ structFifo.last \notin FifoMemory(structFifo)
                      THEN "undefined" ELSE "idle"
    /\ UNCHANGED <<mcan, cfg, counter, cccrReads, changed, ndebug, scenario,
                   calls, pending>>

StructFifo_pull_call ==
    /\ pc = "idle"
    /\ LET done == StructFifo_pull(structFifo, ram)
       IN /\ structFifo' = done.fifo
          /\ contents' = IF done.ok THEN Tail(contents) ELSE contents
          /\ ret' = Return("StructFifo_pull",
                           IF done.ok THEN "none" ELSE "false",
                           IF done.ok THEN <<done.data>> ELSE <<>>)
    /\ UNCHANGED <<mcan, ram, pc, cfg, counter, cccrReads, changed, ndebug,
                   scenario, calls, pending>>

StructFifo_pullUnaligned_call ==
    /\ pc = "idle"
    /\ LET done == StructFifo_pullUnaligned(structFifo, ram)
       IN /\ structFifo' = done.fifo
          /\ contents' = IF done.ok THEN Tail(contents) ELSE contents
          /\ ret' = Return("StructFifo_pullUnaligned",
                           IF done.ok THEN "none" ELSE "false",
                           IF done.ok THEN <<done.data>> ELSE <<>>)
    /\ UNCHANGED <<mcan, ram, pc, cfg, counter, cccrReads, changed, ndebug,
                   scenario, calls, pending>>

StructFifo_peek_call ==
    /\ pc = "idle"
    /\ LET done == StructFifo_peek(structFifo, ram)
       IN ret' = Return("StructFifo_peek",
                        IF done.ok THEN "none" ELSE "false",
                        IF done.ok THEN <<done.data>> ELSE <<>>)
    /\ UNCHANGED <<mcan, ram, pc, cfg, counter, cccrReads, changed, ndebug,
                   scenario, calls, pending, structFifo, contents>>

StructFifo_drop_call ==
    /\ pc = "idle"
    /\ LET done == StructFifo_drop(structFifo)
       IN /\ structFifo' = done.fifo
          /\ contents' = IF done.ok THEN Tail(contents) ELSE contents
          /\ ret' = Return("StructFifo_drop",
                           IF done.ok THEN "none" ELSE "false", <<>>)
    /\ UNCHANGED <<mcan, ram, pc, cfg, counter, cccrReads, changed, ndebug,
                   scenario, calls, pending>>

StructFifo_clear_call ==
    /\ pc = "idle"
    /\ structFifo' = StructFifo_clear(structFifo)
    /\ contents' = <<>>
    /\ ret' = Return("StructFifo_clear", "none", <<>>)
    /\ UNCHANGED <<mcan, ram, pc, cfg, counter, cccrReads, changed, ndebug,
                   scenario, calls, pending>>

NextFifo ==
    \/ StructFifo_push_call
    \/ StructFifo_pushUnaligned_call
    \/ StructFifo_pull_call
    \/ StructFifo_pullUnaligned_call
    \/ StructFifo_peek_call
    \/ StructFifo_drop_call
    \/ StructFifo_clear_call

SpecFifo == InitFifo /\ [][NextFifo]_vars

(***************************************************************************)
(* Properties.                                                             *)
(***************************************************************************)
Returned(errCode) ==
    pc = "idle" /\ ret.op = "Mcan_setConfig" /\ ret.errCode = errCode

\* C1: while the loop waiting for CCCR.INIT runs, every iteration so far has
\* read CCCR once and nothing else has; when it gives up, Mcan_setConfig
\* returns false with InitializationStartTimeout having read CCCR exactly
\* timeoutLimit times, and no region register or descriptor has changed.
C1_InitializationStartTimeout ==
    /\ pc = "waitInit" =>
           /\ cccrReads = counter
           /\ counter <= cfg.timeoutLimit
           /\ changed = {}
    /\ Returned("InitializationStartTimeout") =>
           /\ ~ret.ok
           /\ cccrReads = cfg.timeoutLimit
           /\ changed = {}

\* The timeout with the largest budget, on a device an earlier call has
\* configured.
C1_Witness ==
    /\ Returned("InitializationStartTimeout")
    /\ cfg.timeoutLimit = MaxTimeout
    /\ cccrReads = MaxTimeout
    /\ mcan.tx.bufferSize > 0
    /\ mcan.rxFifo0.size > 0

\* C5: once Mcan_setConfig has read a Tx configuration that is enabled with
\* bufferSize + queueSize > 32, the call has been rejected (it has returned
\* false) without changing a region, and the recorded tx.bufferSize +
\* tx.queueSize is at most 32 in every state.
C5_TxSizeRejected ==
    /\ (cfg.txBuffer.isEnabled
        /\ cfg.txBuffer.bufferSize + cfg.txBuffer.queueSize > MaxTxElements)
           => /\ pc = "idle"
              /\ ~ret.ok
              /\ changed = {}
    /\ mcan.tx.bufferSize + mcan.tx.queueSize <= MaxTxElements

\* C6: a call of Mcan_setConfig that has returned true had no enabled region
\* with the element size Invalid, and no recorded stride is the byte size
\* decoded from Invalid.
C6_InvalidElementSizeRejected ==
    /\ Returned("none") =>
           /\ cfg.rxFifo0.isEnabled =>
                  cfg.rxFifo0.elementSize # Mcan_ElementSize_Invalid
           /\ cfg.rxFifo1.isEnabled =>
                  cfg.rxFifo1.elementSize # Mcan_ElementSize_Invalid
           /\ cfg.rxBuffer.elementSize # Mcan_ElementSize_Invalid
           /\ cfg.txBuffer.isEnabled =>
                  cfg.txBuffer.elementSize # Mcan_ElementSize_Invalid
    /\ mcan.rxFifo0.elementSize
           # decodeRxElementSizeInBytes(Mcan_ElementSize_Invalid)
    /\ mcan.rxFifo1.elementSize
           # decodeRxElementSizeInBytes(Mcan_ElementSize_Invalid)
    /\ mcan.rxBufferElementSize
           # decodeRxElementSizeInBytes(Mcan_ElementSize_Invalid)
    /\ mcan.tx.elementSize
           # decodeTxElementSizeInBytes(Mcan_ElementSize_Invalid)

\* C7: when Mcan_setConfig has returned false with ElementSizeInvalid, no
\* region has a register or a descriptor field changed by the call.
C7_NoPartialWrite ==
    Returned("ElementSizeInvalid") => changed = {}

\* C8: when Mcan_setConfig has returned false with ModeInvalid, the request
\* was for the mode Invalid, and CCCR.INIT and CCCR.CCE are both set.
C8_ModeInvalid ==
    /\ Returned("ModeInvalid") =>
           /\ ~ret.ok
           /\ cfg.mode = "Invalid"
           /\ {"INIT", "CCE"} \subseteq mcan.reg.cccr
    /\ (pc \notin {"idle", "waitInit", "enable", "setMode"}) =>
           cfg.mode # "Invalid"

C8_Witness ==
    /\ Returned("ModeInvalid")
    /\ cfg.mode = "Invalid"
    /\ cfg.isFdEnabled
    /\ {"INIT", "CCE"} \subseteq mcan.reg.cccr

\* C9: while the loop of setPowerDownMode runs, CCCR.CSR is set and the loop
\* has read CCCR at most timeoutLimit times; when the call has returned
\* false with ClockStopRequestTimeout, the loop has made timeoutLimit reads
\* and no region has changed; a read that observes CCCR.CSA makes the call
\* go on with the bit timing.
C9_PowerDown ==
    /\ [](/\ pc = "waitCsa" =>
                 /\ cfg.mode = "PowerDown"
                 /\ "CSR" \in mcan.reg.cccr
                 /\ counter <= cfg.timeoutLimit
          /\ Returned("ClockStopRequestTimeout") =>
                 /\ ~ret.ok
                 /\ cfg.mode = "PowerDown"
                 /\ counter = cfg.timeoutLimit
                 /\ changed = {})
    /\ [][(Mcan_setConfig_waitCsa /\ counter < cfg.timeoutLimit
           /\ "CSA" \in mcan.reg.cccr) => pc' = "setTiming"]_vars

\* The acknowledge never came within the largest budget, on a device an
\* earlier call has configured.
C9_Witness ==
    /\ Returned("ClockStopRequestTimeout")
    /\ cfg.timeoutLimit = MaxTimeout
    /\ "CSR" \in mcan.reg.cccr
    /\ mcan.tx.bufferSize > 0

\* C2: with TXFQS.TFQF set, Mcan_txQueuePush of any element returns false
\* with TxFifoFull and leaves the message RAM, TXBAR (the pending
\* requests), TXBTIE, the queue fill level and the descriptor as they were.
C2_TxFifoFull ==
    mcan.reg.txfqs.TFQF =>
        \A element \in TxElements :
            Mcan_txQueuePush(mcan, ram, element)
            = [m |-> mcan, ram |-> ram,
               ret |-> [op |-> "Mcan_txQueuePush", ok |-> FALSE,
                        errCode |-> "TxFifoFull", out |-> <<>>]]

\* A push has just been refused on a queue whose elements are all pending.
C2_Witness ==
    /\ ret.op = "Mcan_txQueuePush"
    /\ ret.errCode = "TxFifoFull"
    /\ mcan.reg.txfqs.TFQF
    /\ mcan.reg.txfqs.TFFL = 0
    /\ Cardinality(mcan.reg.txbrp) >= mcan.tx.queueSize
    /\ ram # EmptyRam

\* C3: on a configured Rx FIFO whose fill level is 0, Mcan_rxFifoPull
\* returns false with RxFifoEmpty and does not write RXF0A/RXF1A: the
\* registers, the get index and the message RAM stay as they were.
C3_RxFifoEmpty ==
    \A id \in {0, 1} :
        LET fifo == IF id = 0 THEN mcan.rxFifo0 ELSE mcan.rxFifo1
            status == IF id = 0 THEN mcan.reg.rxf0s ELSE mcan.reg.rxf1s
        IN (fifo.address # NULL /\ status.FL = 0) =>
               Mcan_rxFifoPull(mcan, ram, id)
               = [m |-> mcan, ram |-> ram,
                  ret |-> [op |-> "Mcan_rxFifoPull", ok |-> FALSE,
                           errCode |-> "RxFifoEmpty", out |-> <<>>]]

\* A pull has just been refused on FIFO 0 after it was filled and drained.
C3_Witness ==
    /\ ret.op = "Mcan_rxFifoPull"
    /\ ret.errCode = "RxFifoEmpty"
    /\ mcan.rxFifo0.address # NULL
    /\ mcan.reg.rxf0s.FL = 0
    /\ mcan.reg.rxf0s.GI = 1
    /\ mcan.reg.rxf0s.PI = 1
    /\ ram # EmptyRam

\* C4: Mcan_txBufferAdd with an index >= tx.bufferSize (the index equal to
\* bufferSize, and every index when Tx is disabled) returns false with
\* IndexOutOfRange and writes neither TXBAR, TXBTIE nor the message RAM.
C4_IndexOutOfRange ==
    \A element \in TxElements, index \in 0 .. 255 :
        index >= mcan.tx.bufferSize =>
            Mcan_txBufferAdd(mcan, ram, element, index)
            = [m |-> mcan, ram |-> ram,
               ret |-> [op |-> "Mcan_txBufferAdd", ok |-> FALSE,
                        errCode |-> "IndexOutOfRange", out |-> <<>>]]

\* An add has just been refused on a device with dedicated buffers, some of
\* them pending.
C4_Witness ==
    /\ ret.op = "Mcan_txBufferAdd"
    /\ ret.errCode = "IndexOutOfRange"
    /\ mcan.tx.bufferSize > 0
    /\ mcan.reg.txbrp # {}
    /\ ram # EmptyRam

\* C10: after a successful Mcan_setConfig that disables Rx FIFO 0, Rx FIFO 1,
\* Tx or the Tx event FIFO, the descriptor of that region is empty and its
\* configuration register is 0, whatever an earlier configuration recorded;
\* Mcan_rxFifoPull on that FIFO then fails with InvalidRxFifoId and
\* Mcan_txBufferAdd fails with IndexOutOfRange for every index.
C10_DisabledRegionCleared ==
    Returned("none") =>
        /\ ~cfg.rxFifo0.isEnabled =>
               /\ mcan.rxFifo0 = [address |-> NULL, size |-> 0,
                                  elementSize |-> 0]
               /\ mcan.reg.rxf0c = [SA |-> 0, S |-> 0, WM |-> 0, OM |-> 0]
               /\ Mcan_rxFifoPull(mcan, ram, 0).ret.errCode
                  = "InvalidRxFifoId"
        /\ ~cfg.rxFifo1.isEnabled =>
               /\ mcan.rxFifo1 = [address |-> NULL, size |-> 0,
                                  elementSize |-> 0]
               /\ mcan.reg.rxf1c = [SA |-> 0, S |-> 0, WM |-> 0, OM |-> 0]
               /\ Mcan_rxFifoPull(mcan, ram, 1).ret.errCode
                  = "InvalidRxFifoId"
        /\ ~cfg.txBuffer.isEnabled =>
               /\ mcan.tx = [bufferAddress |-> NULL, bufferSize |-> 0,
                             queueAddress |-> NULL, queueSize |-> 0,
                             elementSize |-> 0]
               /\ mcan.reg.txbc
                  = [TBSA |-> 0, NDTB |-> 0, TFQS |-> 0, TFQM |-> 0]
               /\ mcan.reg.txesc = 0
               /\ \A element \in TxElements, index \in 0 .. 255 :
                      Mcan_txBufferAdd(mcan, ram, element, index).ret.errCode
                      = "IndexOutOfRange"
        /\ ~cfg.txEventFifo.isEnabled =>
               /\ mcan.txEventFifoAddress = NULL
               /\ mcan.txEventFifoSize = 0
               /\ mcan.reg.txefc = [EFSA |-> 0, EFS |-> 0, EFWM |-> 0]

\* A configuration that disables all four regions has succeeded, and each
\* of them differs from what the earlier configuration had left.
C10_Witness ==
    /\ Returned("none")
    /\ ~cfg.rxFifo0.isEnabled
    /\ ~cfg.rxFifo1.isEnabled
    /\ ~cfg.txBuffer.isEnabled
    /\ ~cfg.txEventFifo.isEnabled
    /\ {"rxFifo0", "rxFifo1", "tx", "txEventFifo"} \subseteq changed

\* The bytes of a Tx slot that holds the element and nothing else.
TxSlotImage(element, size) ==
    LET written == TxHeader(element, encodeDataLengthCode(element.dataSize))
                   \o SubSeq(element.data, 1, element.dataSize)
    IN written \o [i \in 1 .. size - Len(written) |-> 0]

AtStatement(c, statement) ==
    calls[c].op # "none" /\ calls[c].pc = statement

\* C11: Mcan_txQueuePush on a queue that is not full takes its index from
\* the TXFQS value read in that call (the put index), writes the element to
\* the slot of that index without requesting anything, and only then
\* requests exactly that index through TXBAR and returns it in *index; when
\* calls are serialized the slot then holds the whole element and the index
\* is still the put index of the controller.
C11_PutIndex ==
    [][\A c \in Contexts :
        /\ (Mcan_txQueuePush_read(c) /\ calls'[c] # NoCall) =>
               /\ calls'[c].index = mcan.reg.txfqs.TFQPI
               /\ mcan' = mcan /\ ram' = ram
        /\ Mcan_txQueuePush_txAddElement(c) =>
               /\ mcan'.reg.txbrp = mcan.reg.txbrp
               /\ mcan'.reg.txfqs = mcan.reg.txfqs
        /\ Mcan_txQueuePush_txbar(c) =>
               LET index == calls[c].index
               IN /\ mcan'.reg.txbrp = mcan.reg.txbrp \cup {index}
                  /\ ram' = ram
                  /\ ret' = [op |-> "Mcan_txQueuePush", ok |-> TRUE,
                             errCode |-> "none", out |-> <<index>>]
                  /\ scenario = "serialized" =>
                         /\ index = mcan.reg.txfqs.TFQPI
                         /\ ReadBytes(ram, txElementAddress(mcan, index),
                                      mcan.tx.elementSize)
                            = TxSlotImage(calls[c].element,
                                          mcan.tx.elementSize)]_vars

\* A serialized push has returned the first queue slot for the second time:
\* the put index has wrapped, the earlier element of that slot was sent.
C11_Witness ==
    /\ scenario = "serialized"
    /\ ret = [op |-> "Mcan_txQueuePush", ok |-> TRUE, errCode |-> "none",
              out |-> <<mcan.reg.txbc.NDTB>>]
    /\ mcan.reg.txbc.NDTB \in mcan.reg.txbrp
    /\ mcan.reg.txbc.NDTB + 1 \in mcan.reg.txbto
    /\ mcan.reg.txfqs.TFQPI # mcan.reg.txfqs.TFGI

\* Two calls have written the same slot, or a call has written a slot whose
\* element is still pending.
SlotShared ==
    \E c \in Contexts, d \in Contexts :
        /\ c # d
        /\ AtStatement(c, "txbar")
        /\ AtStatement(d, "txbar")
        /\ calls[c].index = calls[d].index

PendingOverwritten ==
    \E c \in Contexts :
        AtStatement(c, "txbar") /\ calls[c].index \in mcan.reg.txbrp

\* C16: an element of the Tx queue is overwritten only when calls of
\* Mcan_txQueuePush interleave; when the calls are serialized and the
\* controller advances the put index on each add request, every push writes
\* a slot that no other call holds and that is not pending.
C16_PushRace ==
    (SlotShared \/ PendingOverwritten) => scenario = "interleaved"

\* Both contexts read the same put index and wrote different elements to
\* the slot: the element of context 1 is gone.
C16_Witness ==
    /\ scenario = "interleaved"
    /\ AtStatement(1, "txbar")
    /\ AtStatement(2, "txbar")
    /\ calls[1].index = calls[2].index
    /\ calls[1].element # calls[2].element
    /\ ReadBytes(ram, txElementAddress(mcan, calls[1].index),
                 mcan.tx.elementSize)
       = TxSlotImage(calls[2].element, mcan.tx.elementSize)

\* The element a caller is to get for a stored frame.
Delivered(frame) ==
    [esiFlag |-> frame.esiFlag, idType |-> frame.idType,
     frameType |-> frame.frameType, id |-> frame.id,
     isNonMatchingFrame |-> frame.isNonMatchingFrame,
     filterIndex |-> frame.filterIndex,
     isCanFdFormatEnabled |-> frame.isCanFdFormatEnabled,
     isBitRateSwitchingEnabled |-> frame.isBitRateSwitchingEnabled,
     timestamp |-> frame.timestamp,
     dataSize |-> Len(frame.data),
     data |-> frame.data]

RxFifoDescriptor(id) == IF id = 0 THEN mcan.rxFifo0 ELSE mcan.rxFifo1

RxFifoStatus(m, id) == IF id = 0 THEN m.reg.rxf0s ELSE m.reg.rxf1s

RxFifoAcknowledge(m, id) == IF id = 0 THEN m.reg.rxf0a ELSE m.reg.rxf1a

RxFifoWaiting(p, id) == IF id = 0 THEN p.rxFifo0 ELSE p.rxFifo1

\* C12: the frames the controller stored in an Rx FIFO come out of
\* successive Mcan_rxFifoPull calls in the order of their arrival; each
\* successful call writes the get index it decoded from to the acknowledge
\* register of that FIFO and touches nothing of the other FIFO; the get
\* index stays below the element count and goes from the last element to 0;
\* once the stored frames are pulled the next pull fails with RxFifoEmpty.
C12_RxFifoOrder ==
    /\ [](\A id \in Mcan_RxFifoIds :
            LET size == IF id = 0 THEN mcan.reg.rxf0c.S ELSE mcan.reg.rxf1c.S
            IN /\ RxFifoStatus(mcan, id).FL = Len(RxFifoWaiting(pending, id))
               /\ size > 0 => RxFifoStatus(mcan, id).GI < size)
    /\ [][\A id \in Mcan_RxFifoIds :
            (Mcan_rxFifoPull_call(id) /\ RxFifoDescriptor(id).address # NULL)
            =>
            LET waiting == RxFifoWaiting(pending, id)
                getIndex == RxFifoStatus(mcan, id).GI
                size == RxFifoDescriptor(id).size
            IN IF waiting = <<>>
               THEN /\ ret' = [op |-> "Mcan_rxFifoPull", ok |-> FALSE,
                               errCode |-> "RxFifoEmpty", out |-> <<>>]
                    /\ mcan' = mcan
               ELSE /\ ret' = [op |-> "Mcan_rxFifoPull", ok |-> TRUE,
                               errCode |-> "none",
                               out |-> Delivered(Head(waiting))]
                    /\ RxFifoWaiting(pending', id) = Tail(waiting)
                    /\ RxFifoAcknowledge(mcan', id) = getIndex
                    /\ RxFifoStatus(mcan', id).GI
                       = (IF getIndex = size - 1 THEN 0 ELSE getIndex + 1)
                    /\ RxFifoStatus(mcan', 1 - id) = RxFifoStatus(mcan, 1 - id)
                    /\ RxFifoAcknowledge(mcan', 1 - id)
                       = RxFifoAcknowledge(mcan, 1 - id)
                    /\ RxFifoWaiting(pending', 1 - id)
                       = RxFifoWaiting(pending, 1 - id)
                    /\ ram' = ram]_vars

\* A pull has delivered the CAN FD frame from the last element of FIFO 0:
\* the get index is back at 0, a later frame is still waiting, and FIFO 1
\* holds a frame of its own.
C12_Witness ==
    /\ ret.op = "Mcan_rxFifoPull"
    /\ ret.ok
    /\ ret.out.id = 74565
    /\ ret.out.dataSize = 8
    /\ mcan.rxFifo0.size > 1
    /\ mcan.reg.rxf0a = mcan.rxFifo0.size - 1
    /\ mcan.reg.rxf0s.GI = 0
    /\ Len(pending.rxFifo0) = 1
    /\ Len(pending.rxFifo1) = 1

\* C13: Mcan_rxFifoPull on an Rx FIFO whose descriptor is not configured
\* fails with InvalidRxFifoId whatever fill level the controller reports,
\* and writes no acknowledge: registers and message RAM stay as they were.
C13_InvalidRxFifoId ==
    \A id \in Mcan_RxFifoIds :
        RxFifoDescriptor(id).address = NULL =>
            Mcan_rxFifoPull(mcan, ram, id)
            = [m |-> mcan, ram |-> ram,
               ret |-> [op |-> "Mcan_rxFifoPull", ok |-> FALSE,
                        errCode |-> "InvalidRxFifoId", out |-> <<>>]]

\* A pull has been refused on a descriptor that Mcan_init has zeroed while
\* both FIFOs of the controller hold frames.
C13_Witness ==
    /\ ret.op = "Mcan_rxFifoPull"
    /\ ret.errCode = "InvalidRxFifoId"
    /\ mcan.rxFifo0.address = NULL
    /\ mcan.rxFifo1.address = NULL
    /\ mcan.reg.rxf0s.FL > 0
    /\ mcan.reg.rxf1s.FL > 0

\* The element a caller is to get for a stored Tx event.
DeliveredEvent(event) ==
    [esiFlag |-> event.esiFlag, idType |-> event.idType,
     frameType |-> event.frameType, id |-> event.id,
     marker |-> event.marker, eventType |-> event.eventType,
     isCanFdFormatEnabled |-> event.isCanFdFormatEnabled,
     isBitRateSwitchingEnabled |-> event.isBitRateSwitchingEnabled,
     timestamp |-> event.timestamp,
     dataSize |-> IF event.dlc <= 8 THEN event.dlc
                  ELSE IF event.isCanFdFormatEnabled
                       THEN <<12, 16, 20, 24, 32, 48, 64>>[event.dlc - 8]
                       ELSE 8]

\* C14: Mcan_txEventFifoPull writes TXEFA exactly when the fill level it
\* read is not 0: with fill level 0 it fails with TxEventFifoEmpty and
\* changes nothing; otherwise it reads the element at the get index and
\* then acknowledges that index, so that the events come out in the order
\* in which the controller stored them.
C14_TxEventFifoPull ==
    /\ [](mcan.reg.txefs.FL = Len(pending.txEventFifo))
    /\ [][/\ Mcan_txEventFifoPull_read =>
                /\ mcan' = mcan /\ ram' = ram
                /\ IF pending.txEventFifo = <<>>
                   THEN /\ calls' = calls
                        /\ ret' = [op |-> "Mcan_txEventFifoPull",
                                   ok |-> FALSE,
                                   errCode |-> "TxEventFifoEmpty",
                                   out |-> <<>>]
                   ELSE /\ calls'[1].getIndex = mcan.reg.txefs.GI
                        /\ calls'[1].element
                           = DeliveredEvent(Head(pending.txEventFifo))
          /\ Mcan_txEventFifoPull_txefa =>
                /\ mcan'.reg.txefa = mcan.reg.txefs.GI
                /\ calls[1].getIndex = mcan.reg.txefs.GI
                /\ ret' = [op |-> "Mcan_txEventFifoPull", ok |-> TRUE,
                           errCode |-> "none",
                           out |-> DeliveredEvent(Head(pending.txEventFifo))]
                /\ pending'.txEventFifo = Tail(pending.txEventFifo)
                /\ ram' = ram]_vars

\* A pull has delivered the cancelled CAN FD frame from the last element of
\* the FIFO while a later event waits.
C14_Witness ==
    /\ ret.op = "Mcan_txEventFifoPull"
    /\ ret.ok
    /\ ret.out.id = 74565
    /\ ret.out.dataSize = 64
    /\ ret.out.eventType = 2
    /\ mcan.txEventFifoSize > 1
    /\ mcan.reg.txefa = mcan.txEventFifoSize - 1
    /\ mcan.reg.txefs.GI = 0
    /\ Len(pending.txEventFifo) = 1

\* The data sizes that have a data length code.
LegalDataSizes == (0 .. 8) \cup {12, 16, 20, 24, 32, 48, 64}

\* C15: Mcan_txBufferAdd with a valid index and Mcan_txQueuePush on a queue
\* that is not full, given an element whose dataSize has no data length
\* code, return false with ElementSizeInvalid and leave the message RAM,
\* TXBAR (the pending requests) and TXBTIE as they were.
C15_DataSizeInvalid ==
    \A dataSize \in (0 .. 255) \ LegalDataSizes :
        LET element == TxElement(1, 74565, dataSize, TRUE)
            pushed == Mcan_txQueuePush(mcan, ram, element)
        IN /\ \A index \in 0 .. mcan.tx.bufferSize - 1 :
                  Mcan_txBufferAdd(mcan, ram, element, index)
                  = [m |-> mcan, ram |-> ram,
                     ret |-> [op |-> "Mcan_txBufferAdd", ok |-> FALSE,
                              errCode |-> "ElementSizeInvalid",
                              out |-> <<>>]]
           /\ (mcan.tx.queueSize > 0 /\ ~mcan.reg.txfqs.TFQF) =>
                  /\ pushed.m = mcan
                  /\ pushed.ram = ram
                  /\ ~pushed.ret.ok
                  /\ pushed.ret.errCode = "ElementSizeInvalid"

\* A push of an element of 9 bytes has just been refused on a queue that
\* has a free slot and a pending one.
C15_Witness ==
    /\ ret.op = "Mcan_txQueuePush"
    /\ ret.errCode = "ElementSizeInvalid"
    /\ ~mcan.reg.txfqs.TFQF
    /\ ret.out = <<mcan.reg.txfqs.TFQPI>>
    /\ mcan.reg.txfqs.TFQPI # mcan.reg.txfqs.TFGI
    /\ mcan.reg.txbrp # {}
    /\ ram # EmptyRam

\* The two RAM images agree on every byte outside the n bytes at address.
SameOutside(before, after, address, n) ==
    \A a \in (DOMAIN before) \cup (DOMAIN after) :
        a \notin address .. address + n - 1 =>
            ReadByte(before, a) = ReadByte(after, a)

\* C20: Mcan_setStandardIdFilter and Mcan_setExtendedIdFilter with an index
\* at or beyond the list size that the configuration recorded (0 for a
\* reject-all ID space) fail with IndexOutOfRange and leave the message RAM
\* as it was; with a smaller index they succeed and change only the entry
\* of that index, one word for a standard and two for an extended filter.
C20_FilterIndex ==
    \A element \in RxFilterElements, index \in 0 .. 255 :
        LET std == Mcan_setStandardIdFilter(mcan, ram, element, index)
            ext == Mcan_setExtendedIdFilter(mcan, ram, element, index)
        IN /\ IF index >= mcan.rxStdFilterSize
              THEN std = [m |-> mcan, ram |-> ram,
                          ret |-> [op |-> "Mcan_setStandardIdFilter",
                                   ok |-> FALSE,
                                   errCode |-> "IndexOutOfRange",
                                   out |-> <<>>]]
              ELSE /\ std.ret.ok
                   /\ std.m = mcan
                   /\ SameOutside(ram, std.ram,
                                  cfg.standardIdFilter.filterListAddress
                                  + 4 * index, 4)
                   /\ ReadBytes(std.ram,
                                cfg.standardIdFilter.filterListAddress
                                + 4 * index, 4)
                      = StdFilterWord(element)
           /\ IF index >= mcan.rxExtFilterSize
              THEN ext = [m |-> mcan, ram |-> ram,
                          ret |-> [op |-> "Mcan_setExtendedIdFilter",
                                   ok |-> FALSE,
                                   errCode |-> "IndexOutOfRange",
                                   out |-> <<>>]]
              ELSE /\ ext.ret.ok
                   /\ ext.m = mcan
                   /\ SameOutside(ram, ext.ram,
                                  cfg.extendedIdFilter.filterListAddress
                                  + 8 * index, 8)
                   /\ ReadBytes(ext.ram,
                                cfg.extendedIdFilter.filterListAddress
                                + 8 * index, 8)
                      = ExtFilterConfigWord(element)
                        \o ExtFilterTypeWord(element)

\* An extended filter has just been refused at the index equal to the list
\* size, after the last entries of both lists were written.
C20_Witness ==
    /\ ret.op = "Mcan_setExtendedIdFilter"
    /\ ret.errCode = "IndexOutOfRange"
    /\ mcan.rxExtFilterSize > 0
    /\ mcan.rxStdFilterSize > 0
    /\ ReadBytes(ram, cfg.extendedIdFilter.filterListAddress
                      + 8 * (mcan.rxExtFilterSize - 1), 8)
       # <<0, 0, 0, 0, 0, 0, 0, 0>>
    /\ ReadBytes(ram, cfg.standardIdFilter.filterListAddress
                      + 4 * (mcan.rxStdFilterSize - 1), 4)
       # <<0, 0, 0, 0>>

\* The flags that a call in progress has read and is about to report.
BeingReported ==
    UNION {IF calls[c].op = "Mcan_getInterruptStatus" THEN calls[c].flags
           ELSE {} : c \in Contexts}

\* The field of the status for each bit position of IR, from bit 0; the
\* two reserved positions have none.
StatusFields ==
    <<"hasRf0nOccurred", "hasRf0wOccurred", "hasRf0fOccurred",
      "hasRf0lOccurred", "hasRf1nOccurred", "hasRf1wOccurred",
      "hasRf1fOccurred", "hasRf1lOccurred", "hasHpmOccurred",
      "hasTcOccurred", "hasTcfOccurred", "hasTfeOccurred",
      "hasTefnOccurred", "hasTefwOccurred", "hasTeffOccurred",
      "hasTeflOccurred", "hasTswOccurred", "hasMrafOccurred",
      "hasTooOccurred", "hasDrxOccurred", "", "", "hasEloOccurred",
      "hasEpOccurred", "hasEwOccurred", "hasBoOccurred", "hasWdiOccurred",
      "hasPeaOccurred", "hasPedOccurred", "hasAraOccurred">>

\* The bit positions whose field is set in a status.
Reported(status) ==
    {flag \in 0 .. 29 :
        StatusFields[flag + 1] # "" /\ status[StatusFields[flag + 1]]}

\* C17: Mcan_getInterruptStatus reads IR once, writes back the value it
\* read and reports exactly the flags of that value; a flag the controller
\* raises after the read survives the write-back, so every raised flag is
\* either still set in IR or held by a call that is about to report it.
C17_InterruptStatus ==
    /\ [](pending.ir \subseteq (mcan.reg.ir \cup BeingReported))
    /\ [][\A c \in Contexts :
            /\ Mcan_getInterruptStatus_read(c) =>
                   /\ calls'[c].flags = mcan.reg.ir
                   /\ mcan' = mcan
            /\ Mcan_getInterruptStatus_write(c) =>
                   /\ mcan'.reg.ir = mcan.reg.ir \ calls[c].flags
                   /\ Reported(ret'.out) = calls[c].flags
                   /\ pending'.ir \subseteq (mcan'.reg.ir \cup
                          UNION {calls'[d].flags :
                                     d \in {e \in Contexts :
                                               calls'[e] # NoCall}})]_vars

\* Context 1 has read Rf0n and has not yet written it back; the controller
\* has raised Bo since, and a status of context 2 has reported Tc before.
C17_Witness ==
    /\ calls[1].op = "Mcan_getInterruptStatus"
    /\ calls[1].flags = {0}
    /\ calls[2] = NoCall
    /\ mcan.reg.ir = {0, 25}
    /\ pending.ir = {0, 25}
    /\ ret.op = "Mcan_getInterruptStatus"
    /\ Reported(ret.out) = {9}

\* The lengths of the data length codes 9 .. 15 of a CAN FD frame.
FdLengths == <<12, 16, 20, 24, 32, 48, 64>>

\* C18: a data length code 0..8 decodes to itself whatever the CAN FD flag
\* is; a code 9..15 decodes to 8 for a frame that is not CAN FD and to 12,
\* 16, 20, 24, 32, 48, 64 for one that is; encoding a legal length and
\* decoding the code as CAN FD gives the length back.
C18_DataLengthCode ==
    /\ \A dlc \in 0 .. 8, isCanFdFrame \in BOOLEAN :
           decodeDataLengthCode(dlc, isCanFdFrame) = dlc
    /\ \A dlc \in 9 .. 15 :
           /\ decodeDataLengthCode(dlc, FALSE) = 8
           /\ decodeDataLengthCode(dlc, TRUE) = FdLengths[dlc - 8]
    /\ \A size \in LegalDataSizes :
           decodeDataLengthCode(encodeDataLengthCode(size), TRUE) = size
    /\ ret.op = "decodeDataLengthCode" =>
           ret.out[3] = (IF ret.out[1] <= 8 THEN ret.out[1]
                         ELSE IF ret.out[2] THEN FdLengths[ret.out[1] - 8]
                         ELSE 8)
    /\ (ret.op = "encodeDataLengthCode" /\ ret.out[1] \in LegalDataSizes) =>
           decodeDataLengthCode(ret.out[2], TRUE) = ret.out[1]

\* Code 13 of a frame that is not CAN FD has been decoded.
C18_Witness ==
    /\ ret.op = "decodeDataLengthCode"
    /\ ret.out = <<13, FALSE, 8>>

\* The byte counts of the elements with a legal data field.
LegalElementBytes == {8 + size : size \in {8, 12, 16, 20, 24, 32, 48, 64}}

\* C19: for each of the 8 element size selectors, encoding the byte count
\* that the Tx (Rx) decoder gives returns the selector; for every other
\* 8-bit byte count both encoders return Mcan_ElementSize_Invalid.
C19_ElementSizeRoundTrip ==
    /\ \A selector \in Mcan_ElementSize_8 .. Mcan_ElementSize_64 :
           /\ encodeTxElementSizeInBytes(decodeTxElementSizeInBytes(selector))
              = selector
           /\ encodeRxElementSizeInBytes(decodeRxElementSizeInBytes(selector))
              = selector
    /\ \A size \in (0 .. 255) \ LegalElementBytes :
           /\ encodeTxElementSizeInBytes(size) = Mcan_ElementSize_Invalid
           /\ encodeRxElementSizeInBytes(size) = Mcan_ElementSize_Invalid
    /\ (ret.op \in {"decodeTxElementSizeInBytes",
                    "decodeRxElementSizeInBytes"}
        /\ ret.out[1] # Mcan_ElementSize_Invalid) =>
           /\ ret.out[2] \in LegalElementBytes
           /\ encodeTxElementSizeInBytes(ret.out[2]) = ret.out[1]
           /\ encodeRxElementSizeInBytes(ret.out[2]) = ret.out[1]
    /\ (ret.op \in {"encodeTxElementSizeInBytes",
                    "encodeRxElementSizeInBytes"}
        /\ ret.out[1] \notin LegalElementBytes) =>
           ret.out[2] = Mcan_ElementSize_Invalid

\* The byte count 0, smaller than a header, has been encoded.
C19_Witness ==
    /\ ret.op = "encodeTxElementSizeInBytes"
    /\ ret.out = <<0, Mcan_ElementSize_Invalid>>

\* The bytes of Tx slot `index` of a Tx area at `base` with elements of
\* `stride` bytes.
TxSlot(base, stride, index) ==
    {base + index * stride + i : i \in 0 .. stride - 1}

\* C21: after a successful Mcan_setConfig with the Tx buffer enabled, the
\* recorded queue address is the recorded buffer address plus bufferSize
\* times the element stride (Tx header plus configured data size), whatever
\* the caller passed, so no buffer slot shares a byte with a queue slot and
\* the first queue slot begins where the last buffer slot ends; when the
\* call is about to set the Tx buffer, setTxBuffer gives that address for
\* every legal element size and buffer size.
C21_TxQueueAddress ==
    /\ (Returned("none") /\ cfg.txBuffer.isEnabled) =>
           LET stride == 4 * MCAN_TXELEMENT_DATA_WORD
                         + decodeElementSizeInBytes(cfg.txBuffer.elementSize)
           IN /\ mcan.tx.bufferAddress = cfg.txBuffer.startAddress
              /\ mcan.tx.elementSize = stride
              /\ mcan.tx.queueAddress
                 = mcan.tx.bufferAddress + mcan.tx.bufferSize * stride
              /\ \A i \in 0 .. mcan.tx.bufferSize - 1,
                    j \in 0 .. mcan.tx.queueSize - 1 :
                     TxSlot(mcan.tx.bufferAddress, stride, i)
                     \cap TxSlot(mcan.tx.queueAddress, stride, j) = {}
    /\ pc = "setTxBuffer" =>
       \A es \in Mcan_ElementSize_8 .. Mcan_ElementSize_64,
          n \in 0 .. MaxTxElements :
           LET config == [cfg EXCEPT !.txBuffer =
                              TxBufferEnabled(n, MaxTxElements - n, es)]
               done == setTxBuffer(mcan, config, ~ndebug)
           IN /\ done.result = "true"
              /\ done.m.tx.queueAddress
                 = TxArea + n * (4 * MCAN_TXELEMENT_DATA_WORD
                                 + decodeElementSizeInBytes(es))

\* A call has succeeded with the largest legal Tx area.
C21_Witness ==
    /\ Returned("none")
    /\ cfg.txBuffer.isEnabled
    /\ mcan.tx.bufferSize = MaxTxElements - RegionSize
    /\ mcan.tx.queueSize = RegionSize
    /\ mcan.tx.queueAddress = TxArea + (MaxTxElements - RegionSize) * 16

\* C22: a call of Mcan_setConfig that is under way comes to its end,
\* whatever the controller does: it returns, or the assertion of setTxBuffer
\* ends the program in a build with assertions; each of its two polling
\* loops reads CCCR only while its counter is below timeoutLimit and each
\* read that does not end the loop advances the counter, so that a loop
\* makes at most timeoutLimit polls.
C22_NoIndefiniteBlocking ==
    /\ (pc # "idle") ~> (pc \in {"idle", "aborted"})
    /\ [](pc \in {"waitInit", "waitCsa"} => counter <= cfg.timeoutLimit)
    /\ [][((Mcan_setConfig_waitInit \/ Mcan_setConfig_waitCsa)
           /\ cccrReads' # cccrReads)
          => /\ counter < cfg.timeoutLimit
             /\ cccrReads' = cccrReads + 1
             /\ \/ counter' = counter + 1
                \/ pc' \notin {"waitInit", "waitCsa"}]_vars

\* The controller acknowledged the initialization and never the clock stop
\* request: the call has returned after the largest budget of polls.
C22_Witness ==
    /\ Returned("ClockStopRequestTimeout")
    /\ cfg.timeoutLimit = MaxTimeout
    /\ counter = MaxTimeout
    /\ "CSA" \notin mcan.reg.cccr
    /\ "INIT" \in mcan.reg.cccr

\* The address at which the controller accesses a region: the upper half
\* from the DMA base address register, the lower half from the start
\* address field of the region's register.
HwAddress(m, startAddressField) ==
    m.reg.canDmaBase * 65536 + startAddressField

\* C23: after Mcan_setConfig has returned, the recorded message RAM base has
\* its low 16 bits zero and the DMA base address register holds its upper
\* 16 bits; after it has returned true, the recorded address of each enabled
\* region is the address at which the controller accesses the region.
C23_MsgRamBase ==
    /\ (pc = "idle" /\ ret.op = "Mcan_setConfig") =>
           /\ mcan.msgRamBaseAddress % 65536 = 0
           /\ mcan.reg.canDmaBase = cfg.msgRamBaseAddress \div 65536
    /\ Returned("none") =>
           /\ mcan.rxFifo0.address # NULL =>
                  mcan.rxFifo0.address = HwAddress(mcan, mcan.reg.rxf0c.SA)
           /\ mcan.rxFifo1.address # NULL =>
                  mcan.rxFifo1.address = HwAddress(mcan, mcan.reg.rxf1c.SA)
           /\ mcan.tx.bufferAddress # NULL =>
                  mcan.tx.bufferAddress = HwAddress(mcan, mcan.reg.txbc.TBSA)

\* elementsCount of the StructFifo_init that made the queue.
FifoCapacity(f) == (f.end - f.begin) \div f.elementSize

\* The address of the k-th oldest element of the queue.
FifoSlot(f, k) ==
    f.begin + (((f.first - f.begin) + (k - 1) * f.elementSize)
               % (f.end - f.begin))

\* C24: on a queue made for elementsCount >= 1 elements, StructFifo_push and
\* StructFifo_pushUnaligned return false exactly when the queue holds
\* elementsCount elements, and then leave the queue and its memory as they
\* were; StructFifo_pull, StructFifo_pullUnaligned, StructFifo_peek and
\* StructFifo_drop return false exactly when the queue holds no element, and
\* then change nothing; StructFifo_isEmpty and StructFifo_isFull are never
\* both true.
C24_FifoRejections ==
    (pc = "idle" /\ FifoCapacity(structFifo) >= 1) =>
        LET full == Len(contents) = FifoCapacity(structFifo)
            empty == contents = <<>>
            pulled == StructFifo_pull(structFifo, ram)
            pulledUnaligned == StructFifo_pullUnaligned(structFifo, ram)
            peeked == StructFifo_peek(structFifo, ram)
            dropped == StructFifo_drop(structFifo)
        IN /\ \A data \in FifoElements(structFifo.elementSize) :
                  LET pushed == StructFifo_push(structFifo, ram, data)
                      pushedUnaligned ==
                          StructFifo_pushUnaligned(structFifo, ram, data)
                  IN /\ ~pushed.ok <=> full
                     /\ ~pushedUnaligned.ok <=> full
                     /\ ~pushed.ok =>
                            pushed.fifo = structFifo /\ pushed.ram = ram
                     /\ ~pushedUnaligned.ok =>
                            /\ pushedUnaligned.fifo = structFifo
                            /\ pushedUnaligned.ram = ram
           /\ ~pulled.ok <=> empty
           /\ ~pulledUnaligned.ok <=> empty
           /\ ~peeked.ok <=> empty
           /\ ~dropped.ok <=> empty
           /\ empty => /\ pulled.fifo = structFifo
                       /\ pulledUnaligned.fifo = structFifo
                       /\ dropped.fifo = structFifo
                       /\ pulled.data = <<>>
                       /\ peeked.data = <<>>
           /\ ~(StructFifo_isEmpty(structFifo) /\ StructFifo_isFull(structFifo))

\* A push has been refused by a full queue whose oldest element is not at
\* the beginning of the buffer.
C24_Witness ==
    /\ ret.op = "StructFifo_push"
    /\ ~ret.ok
    /\ Len(contents) = RegionSize
    /\ StructFifo_isFull(structFifo)
    /\ structFifo.first # structFifo.begin

\* C25: the elements the queue holds are in its memory in the order of
\* their pushes, starting at `first` and wrapping at the end of the buffer;
\* StructFifo_pull and StructFifo_pullUnaligned give the oldest of them and
\* leave the queue StructFifo_drop leaves; StructFifo_peek gives the same
\* element and leaves the queue as it is; a completed pull has returned the
\* oldest element and removed it.
C25_FifoOrder ==
    /\ [](pc = "idle" =>
           /\ \A k \in 1 .. Len(contents) :
                  ReadBytes(ram, FifoSlot(structFifo, k),
                            structFifo.elementSize) = contents[k]
           /\ contents # <<>> =>
                  LET pulled == StructFifo_pull(structFifo, ram)
                      peeked == StructFifo_peek(structFifo, ram)
                  IN /\ pulled.ok /\ pulled.data = Head(contents)
                     /\ StructFifo_pullUnaligned(structFifo, ram) = pulled
                     /\ peeked.ok /\ peeked.data = Head(contents)
                     /\ peeked.fifo = structFifo
                     /\ StructFifo_drop(structFifo).fifo = pulled.fifo)
    /\ [][((StructFifo_pull_call \/ StructFifo_pullUnaligned_call) /\ ret'.ok)
          => /\ ret'.out = <<Head(contents)>>
             /\ contents' = Tail(contents)
             /\ ram' = ram]_vars
    /\ [][(StructFifo_peek_call /\ ret'.ok)
          => /\ ret'.out = <<Head(contents)>>
             /\ structFifo' = structFifo
             /\ ram' = ram]_vars

\* A pull has returned an element of a queue whose elements lie across the
\* end of the buffer.
C25_Witness ==
    /\ ret.op = "StructFifo_pull"
    /\ ret.ok
    /\ Len(contents) >= 1
    /\ structFifo.first # NULL
    /\ structFifo.last <= structFifo.first
    /\ structFifo.first # structFifo.begin

\* C30: for a queue made by StructFifo_init for any elementsCount >= 0, no
\* byte outside the memory buffer has been written, the queue holds at most
\* elementsCount elements, `last` is an element boundary of the buffer and
\* `first` is NULL or an element boundary of the buffer.
C30_FifoWithinBuffer ==
    LET n == FifoCapacity(structFifo)
        boundaries == {structFifo.begin + k * structFifo.elementSize :
                           k \in 0 .. (IF n = 0 THEN 0 ELSE n - 1)}
    IN /\ DOMAIN ram \subseteq FifoMemory(structFifo)
       /\ Len(contents) <= n
       /\ structFifo.last \in boundaries
       /\ structFifo.first = NULL \/ structFifo.first \in boundaries

\* The registers that hold the configuration: bit timing, timestamp and
\* timeout counter, filters, Rx and Tx regions, Tx Event FIFO and interrupt
\* routing.
ProtectedRegisters(m) ==
    <<m.reg.nbtp, m.reg.dbtp, m.reg.dbtpTDC, m.reg.tdcr, m.reg.tscc,
      m.reg.tocc, m.reg.gfc, m.reg.sidfc, m.reg.xidfc, m.reg.rxf0c,
      m.reg.rxf1c, m.reg.rxbc, m.reg.rxesc, m.reg.txbc, m.reg.txesc,
      m.reg.txefc, m.reg.ie, m.reg.ils, m.reg.ile>>

\* C26: a step of Mcan_setConfig that changes a bit timing, timestamp or
\* timeout, filter, Rx or Tx region, Tx Event FIFO or interrupt routing
\* register is taken after the loop has observed CCCR.INIT and with
\* CCCR.INIT and CCCR.CCE both set; the data bit timing and the transmitter
\* delay compensation change only in the timing step of a call with CAN FD
\* enabled; CCCR.INIT is cleared only by the step that makes the call return
\* true, which writes nothing else, and a call that returns false leaves
\* CCCR.INIT as it was.
C26_ConfigurationOrder ==
    /\ [][ProtectedRegisters(mcan') # ProtectedRegisters(mcan)
          => /\ pc \notin {"idle", "waitInit", "enable"}
             /\ {"INIT", "CCE"} \subseteq mcan.reg.cccr]_vars
    /\ [][<<mcan'.reg.dbtp, mcan'.reg.dbtpTDC, mcan'.reg.tdcr>>
          # <<mcan.reg.dbtp, mcan.reg.dbtpTDC, mcan.reg.tdcr>>
          => pc = "setTiming" /\ cfg.isFdEnabled]_vars
    /\ [][("INIT" \in mcan.reg.cccr /\ "INIT" \notin mcan'.reg.cccr)
          => /\ pc = "clearInit" /\ pc' = "idle"
             /\ ret'.op = "Mcan_setConfig" /\ ret'.ok
             /\ [mcan' EXCEPT !.reg.cccr = mcan.reg.cccr,
                              !.reg.initReq = mcan.reg.initReq] = mcan]_vars
    /\ [][(pc # "idle" /\ pc' = "idle")
          => IF ret'.ok
             THEN "INIT" \in mcan.reg.cccr /\ "INIT" \notin mcan'.reg.cccr
             ELSE ("INIT" \in mcan'.reg.cccr)
                  = ("INIT" \in mcan.reg.cccr)]_vars

\* A call without CAN FD has returned true on a device out of reset: the
\* nominal bit timing is written, the data bit timing is not, and CCCR.INIT
\* is cleared.
C26_Witness ==
    /\ Returned("none")
    /\ ~cfg.isFdEnabled
    /\ "INIT" \notin mcan.reg.cccr
    /\ "CCE" \in mcan.reg.cccr
    /\ mcan.reg.nbtp # ResetRegisters.nbtp
    /\ mcan.reg.dbtp = ResetRegisters.dbtp
    /\ mcan.reg.tdcr = ResetRegisters.tdcr

\* C27: a successful Mcan_txBufferAdd or Mcan_txQueuePush of an element
\* whose dataSize has a data length code, be it larger than the data size
\* configured for the Tx elements, changes the message RAM only inside the
\* slot of its index, bytes [index * stride, (index + 1) * stride) of the Tx
\* area, and changes in TXBTIE only the bit of that index. The push is taken
\* on a device whose Tx queue is configured.
C27_TxWritesInsideSlot ==
    \A dataSize \in LegalDataSizes :
        LET element == TxElement(1, 74565, dataSize, TRUE)
            stride == mcan.tx.elementSize
            pushed == Mcan_txQueuePush(mcan, ram, element)
        IN /\ \A index \in 0 .. mcan.tx.bufferSize - 1 :
                  LET added == Mcan_txBufferAdd(mcan, ram, element, index)
                  IN added.ret.ok =>
                         /\ SameOutside(ram, added.ram,
                                        mcan.tx.bufferAddress + index * stride,
                                        stride)
                         /\ added.m.reg.txbtie \ {index}
                            = mcan.reg.txbtie \ {index}
           /\ (mcan.tx.queueSize > 0 /\ pushed.ret.ok) =>
                  /\ SameOutside(ram, pushed.ram,
                                 mcan.tx.bufferAddress
                                 + pushed.ret.out[1] * stride,
                                 stride)
                  /\ pushed.m.reg.txbtie \ {pushed.ret.out[1]}
                     = mcan.reg.txbtie \ {pushed.ret.out[1]}

\* The data field of the elements of a region whose stride is elementSize.
RxDataField(elementSize) == elementSize - 4 * MCAN_RXELEMENT_DATA_WORD

\* C28: Mcan_rxFifoPull and Mcan_rxBufferGet never copy more data bytes
\* into the caller's element than the data size configured for the region
\* that is read, even when the stored DLC and FDF flag denote a longer
\* frame (DLC 15 in a region of 8-byte elements).
C28_RxCopyInsideSlot ==
    /\ \A id \in Mcan_RxFifoIds :
           LET pulled == Mcan_rxFifoPull(mcan, ram, id)
               fifo == IF id = 0 THEN mcan.rxFifo0 ELSE mcan.rxFifo1
           IN pulled.ret.ok =>
                  pulled.ret.out.dataSize <= RxDataField(fifo.elementSize)
    /\ mcan.rxBufferAddress # NULL =>
           \A index \in RxBufferIndices :
               Mcan_rxBufferGet(mcan, ram, index).dataSize
               <= RxDataField(mcan.rxBufferElementSize)

\* C29: after a successful Mcan_setConfig with a requestable mode, and
\* whatever was configured before, the mode that Mcan_getConfig reports is
\* the mode requested; Invalid is never reported in a state reached by a
\* successful configuration.
C29_ModeRoundTrip ==
    Returned("none") =>
        /\ getMode(mcan).mode = cfg.mode
        /\ getMode(mcan).mode # "Invalid"

====
